---- MODULE Spec2Model ----
(***************************************************************************)
(* A model of the node-talker world server core: the command table         *)
(* (CommandHandler), the Item Store (ItemManager, with the take and drop   *)
(* handlers that write through it), and the per-connection session state   *)
(* machine (ClientHandler) over the Session Registry (UserManager) and     *)
(* the Room Store (RoomManager).                                           *)
(*                                                                         *)
(* Three specifications share the module:                                  *)
(*   SpecCmd   - loadCommands reading the command files one by one;        *)
(*   SpecItems - the Item Store under create/update/save/load/delete and   *)
(*               the take and drop handlers;                               *)
(*   Spec      - connections being accepted, sending lines and closing.    *)
(*                                                                         *)
(* JavaScript values are encoded as strings: ordinary strings stand for    *)
(* themselves, and null, true and false are the tagged constants below,    *)
(* so that a field holding the string "true" differs from the boolean.     *)
(***************************************************************************)
EXTENDS Integers, Sequences, FiniteSets, TLC

VARIABLES
    \* ---- CommandHandler
    commandFiles,   \* command files loadCommands has not read yet
    commands,       \* this.commands: a JS Map, kept in insertion order
    loadedDefs,     \* the definitions successfully required so far
    \* ---- ItemManager
    items,          \* this.items: the cache, a JS Map in insertion order
    itemFiles,      \* the backing records, one per item id (NULL: no file)
    nextItem,       \* how many item ids uuid.v4() has handed out
    itemOp,         \* how the last Item Store call ended
    \* ---- ClientHandler, UserManager, RoomManager
    world,          \* the server: roster, sessions, account files, rooms
    ret             \* how the last event handler ended

cmdVars  == <<commandFiles, commands, loadedDefs>>
itemVars == <<items, itemFiles, nextItem, itemOp>>
sessVars == <<world, ret>>
vars     == <<cmdVars, itemVars, sessVars>>

-----------------------------------------------------------------------------
(* JavaScript values *)

NULL   == "<null>"
JTRUE  == "<true>"
JFALSE == "<false>"
UNDEF  == "<undefined>"

\* ToBoolean: null, undefined, false and the empty string are falsy
Truthy(v) == v \notin {NULL, UNDEF, JFALSE, ""}

-----------------------------------------------------------------------------
(* A JS Map: a sequence of [k, v] entries in insertion order.  Map.set on  *)
(* a key already present replaces the value and keeps the position.       *)

MapHas(m, k) == \E i \in 1..Len(m) : m[i].k = k

MapIdx(m, k) == CHOOSE i \in 1..Len(m) : m[i].k = k

MapGet(m, k) == IF MapHas(m, k) THEN m[MapIdx(m, k)].v ELSE UNDEF

MapSet(m, k, v) ==
    IF MapHas(m, k)
    THEN [m EXCEPT ![MapIdx(m, k)] = [k |-> k, v |-> v]]
    ELSE Append(m, [k |-> k, v |-> v])

MapDelete(m, k) == SelectSeq(m, LAMBDA e : e.k # k)

MapKeys(m) == {m[i].k : i \in 1..Len(m)}

-----------------------------------------------------------------------------
(* Command Router: CommandHandler.loadCommands                              *)

\* The command definitions (module.exports of each command file).  The long
\* alias lists are cut down to a few aliases each; every alias kept is in the
\* file's list, and the aliases two files share are kept in both.
CommandCatalog ==
    [ drop |-> [name |-> "drop", aliases |-> <<"deposit", "put", "withdraw">>],
      look |-> [name |-> "look", aliases |-> <<"l">>],
      roll |-> [name |-> "roll", aliases |-> <<"lroll", "groll">>],
      take |-> [name |-> "take", aliases |-> <<"get", "grab", "withdraw">>],
      user |-> [name |-> "user", aliases |-> <<>>],
      walk |-> [name |-> "walk", aliases |-> <<"go", "north", "roll">>],
      welcome |-> [name |-> "welcome", aliases |-> <<>>] ]

CommandFileNames == DOMAIN CommandCatalog

\* command.aliases.forEach((alias) => this.commands.set(alias, command))
RECURSIVE SetAliases(_, _, _)
SetAliases(m, aliases, command) ==
    IF aliases = <<>> THEN m
    ELSE SetAliases(MapSet(m, Head(aliases), command), Tail(aliases), command)

\* the body of the for loop for one file whose require succeeded
LoadDefinition(m, file) ==
    LET command == CommandCatalog[file]
    IN  SetAliases(MapSet(m, command.name, file), command.aliases, file)

\* the whole of loadCommands over files read in the given order
RECURSIVE LoadAll(_, _)
LoadAll(m, files) ==
    IF files = <<>> THEN m
    ELSE LoadAll(LoadDefinition(m, Head(files)), Tail(files))

\* readdirSync in name order, every require succeeding
AllCommands == LoadAll(<<>>, <<"drop", "look", "roll", "take", "user", "walk", "welcome">>)

\* require(file) succeeds: the definition's name and aliases are stored
LoadCommandFile(file) ==
    /\ file \in commandFiles
    /\ commandFiles' = commandFiles \ {file}
    /\ commands' = LoadDefinition(commands, file)
    /\ loadedDefs' = loadedDefs \cup {file}
    /\ UNCHANGED <<itemVars, sessVars>>

\* require(file) throws: the error is logged and the loop continues
SkipCommandFile(file) ==
    /\ file \in commandFiles
    /\ commandFiles' = commandFiles \ {file}
    /\ UNCHANGED <<commands, loadedDefs>>
    /\ UNCHANGED <<itemVars, sessVars>>

\* this.commands.get(commandName), as handleCommands resolves a verb
LookupCommand(key) == MapGet(commands, key)

\* getMainCommands: the definitions of the entries, in the order of the map,
\* whose key is the name of the definition they hold
getMainCommands ==
    LET main == SelectSeq(commands, LAMBDA e : CommandCatalog[e.v].name = e.k)
    IN  [i \in 1..Len(main) |-> main[i].v]

-----------------------------------------------------------------------------
(* Item Store: ItemManager, and the take and drop handlers                  *)

MaxItems == 2

ItemIdPool == <<"i1", "i2", "i3", "i4">>

\* the actors the Item Store is driven by, and the room they stand in
Owners   == {"u1", "u2"}
RoomKeys == {"000:000"}

\* a sample of the closed catalog of types, and a type outside it
AllowedTypes == {"bauble", "torch"}
UnknownType  == "spaceship"
\* the types updateItem is asked to set: the default type and an unknown one
PatchTypes   == {"bauble", UnknownType}

\* item names are strings, kept as sequences of characters so that
\* toLowerCase and includes are computed
Coin  == <<"c", "o", "i", "n">>
Coins == <<"C", "o", "i", "n", "s">>
\* the name items are created with, and the names commands ask for
ItemNames  == {Coin}
QueryNames == {Coin, Coins}

LowerChar(c) == IF c = "C" THEN "c" ELSE c

\* String.prototype.toLowerCase
toLowerCase(str) == [i \in 1..Len(str) |-> LowerChar(str[i])]

\* String.prototype.includes
includes(str, sub) ==
    \E i \in 1..(Len(str) - Len(sub) + 1) :
        SubSeq(str, i, i + Len(sub) - 1) = sub

\* new Item() with Object.assign(item, itemData): the defaults, then the
\* caller's fields over them
NewItem(id, itemData) ==
    [id       |-> id,
     name     |-> itemData.name,
     type     |-> "bauble",
     owner    |-> itemData.owner,
     location |-> itemData.location]

\* Object.assign(item, newData)
Assign(item, newData) ==
    [f \in DOMAIN item |-> IF f \in DOMAIN newData THEN newData[f] ELSE item[f]]

\* new Item(): the defaults, under an id of its own
UndefinedItem == <<"U", "n", "d", "e", "f", "i", "n", "e", "d", " ", "I", "t", "e", "m">>

DefaultItem ==
    [id       |-> "uuid",
     name     |-> UndefinedItem,
     type     |-> "bauble",
     owner    |-> NULL,
     location |-> NULL]

\* a name that is null, as a hand-written record can hold it (kept as a
\* sequence, as the names are)
NullName == <<NULL>>

\* JSON.stringify(item): a field whose value is undefined is left out
stringify(item) ==
    [f \in {g \in DOMAIN item : g = "name" \/ item[g] # UNDEF} |-> item[f]]

\* a file of the items directory that is not JSON
Unparsable == [unparsable |-> TRUE]

\* saveItem with the owner left out of what is written
saveItemNoOwner(files, item) ==
    MapSet(files, item.id, [f \in DOMAIN item \ {"owner"} |-> item[f]])

\* saveItem: the file named by the item's id is overwritten with the JSON
\* text of the item
saveItem(files, item) == MapSet(files, item.id, stringify(item))

\* loadItem, as it leaves the cache: a cached id is left alone; a backing
\* record is required, assigned over a new Item and cached; an id with no
\* file, or with a file require cannot parse, changes nothing
loadItem(cache, files, itemId) ==
    IF MapHas(cache, itemId) THEN cache
    ELSE IF ~MapHas(files, itemId) THEN cache
    ELSE IF MapGet(files, itemId) = Unparsable THEN cache
    ELSE MapSet(cache, itemId, Assign(DefaultItem, MapGet(files, itemId)))

\* the first loop of findItems: every file not yet cached goes through
\* loadItem, which puts it in the cache
RECURSIVE LoadEvery(_, _, _)
LoadEvery(cache, files, n) ==
    IF n > Len(files) THEN cache
    ELSE LoadEvery(loadItem(cache, files, files[n].k), files, n + 1)

\* one criteria key against one item
Matches(item, key, value) ==
    IF key \in {"name", "description"}
    THEN includes(toLowerCase(item[key]), toLowerCase(value))
    ELSE item[key] = value

\* findItems over the cache as the first loop left it: the ids of the
\* matching items, in Map order
findItems(cache, criteria) ==
    LET hit(e) == \A key \in DOMAIN criteria : Matches(e.v, key, criteria[key])
        found == SelectSeq(cache, hit)
    IN  [i \in 1..Len(found) |-> found[i].k]

\* the invariant check of updateItem
BothSet(item) == Truthy(item.owner) /\ Truthy(item.location)

\* updateItem: [items, itemFiles, result] after the call
updateItemOutcome(cache, files, itemId, newData) ==
    IF "type" \in DOMAIN newData /\ Truthy(newData.type)
       /\ newData.type \notin AllowedTypes
    THEN [items |-> cache, itemFiles |-> files, result |-> "throw:type"]
    ELSE LET loaded == loadItem(cache, files, itemId)
         IN  IF ~MapHas(loaded, itemId)
             THEN [items |-> loaded, itemFiles |-> files,
                   result |-> "throw:notfound"]
             ELSE LET item    == Assign(MapGet(loaded, itemId), newData)
                      patched == MapSet(loaded, itemId, item)
                  IN  IF BothSet(item)
                      THEN [items |-> patched, itemFiles |-> files,
                            result |-> "throw:both"]
                      ELSE [items |-> patched,
                            itemFiles |-> saveItem(files, item),
                            result |-> "ok"]

\* the field patches updateItem is called with
Patches ==
    {[type |-> t] : t \in PatchTypes}
    \cup {[owner |-> o] : o \in Owners \cup {NULL}}
    \cup {[location |-> l] : l \in RoomKeys \cup {NULL}}
    \cup {[owner |-> o, location |-> l] :
            o \in Owners \cup {NULL}, l \in RoomKeys \cup {NULL}}

\* the itemData createItem is called with: item create passes a name and an
\* owner; a system action may place the item in a room instead
ItemData ==
    {d \in [name : ItemNames, owner : Owners \cup {NULL},
            location : RoomKeys \cup {NULL}] :
        ~(Truthy(d.owner) /\ Truthy(d.location))}

IssuedIds == {ItemIdPool[n] : n \in 1..nextItem}

createItem(itemData) ==
    /\ nextItem < MaxItems
    /\ LET item == NewItem(ItemIdPool[nextItem + 1], itemData)
       IN  /\ items' = MapSet(items, item.id, item)
           /\ itemFiles' = saveItem(itemFiles, item)
    /\ nextItem' = nextItem + 1
    /\ itemOp' = "ok"
    /\ UNCHANGED <<cmdVars, sessVars>>

updateItem(itemId, newData) ==
    LET out == updateItemOutcome(items, itemFiles, itemId, newData)
    IN  /\ items' = out.items
        /\ itemFiles' = out.itemFiles
        /\ itemOp' = out.result
        /\ UNCHANGED <<nextItem, cmdVars, sessVars>>

\* setItemOwnershipOrLocation on a cached item
setItemOwnershipOrLocation(itemId, ownerId, location) ==
    /\ MapHas(items, itemId)
    /\ LET old  == MapGet(items, itemId)
           item == IF Truthy(ownerId)
                   THEN [old EXCEPT !.owner = ownerId, !.location = NULL]
                   ELSE IF Truthy(location)
                   THEN [old EXCEPT !.location = location, !.owner = NULL]
                   ELSE old
       IN  /\ items' = MapSet(items, itemId, item)
           /\ itemFiles' = saveItem(itemFiles, item)
    /\ itemOp' = "ok"
    /\ UNCHANGED <<nextItem, cmdVars, sessVars>>

\* saveItem on a cached item, as the open/close and light handlers call it
\* after changing a flag of an item findItems returned
SaveCached(itemId) ==
    /\ MapHas(items, itemId)
    /\ itemFiles' = saveItem(itemFiles, MapGet(items, itemId))
    /\ itemOp' = "ok"
    /\ UNCHANGED <<items, nextItem, cmdVars, sessVars>>

LoadItem(itemId) ==
    /\ items' = loadItem(items, itemFiles, itemId)
    /\ itemOp' = IF MapHas(items', itemId) THEN "ok" ELSE "false"
    /\ UNCHANGED <<itemFiles, nextItem, cmdVars, sessVars>>

\* deleteItem: only a cached id is removed, with its file
deleteItem(itemId) ==
    /\ IF MapHas(items, itemId)
       THEN /\ itemFiles' = MapDelete(itemFiles, itemId)
            /\ items' = MapDelete(items, itemId)
            /\ itemOp' = "ok"
       ELSE /\ UNCHANGED <<items, itemFiles>>
            /\ itemOp' = "false"
    /\ UNCHANGED <<nextItem, cmdVars, sessVars>>

\* the process is started again: a new ItemManager has an empty cache
RestartItemManager ==
    /\ items # <<>>
    /\ items' = <<>>
    /\ itemOp' = "ok"
    /\ UNCHANGED <<itemFiles, nextItem, cmdVars, sessVars>>

\* The data of a take or drop command after parsing: the base item name, the
\* "all" selector ("all coin", "coin:all"), a leading quantity ("2 coin") and
\* a 1-based ordinal ("coin:2", held 0-based); no container is named.
Selections ==
    {[name |-> n, all |-> FALSE, quantity |-> 1, indexed |-> FALSE, index |-> 0] :
        n \in QueryNames}
    \cup {[name |-> Coin, all |-> TRUE, quantity |-> 1, indexed |-> FALSE, index |-> 0]}
    \cup {[name |-> Coin, all |-> FALSE, quantity |-> 2, indexed |-> FALSE, index |-> 0]}
    \cup {[name |-> Coin, all |-> FALSE, quantity |-> 1, indexed |-> TRUE, index |-> k] :
            k \in 0..1}

\* the selection with the ordinal ignored: the first candidate is taken
SelectedFirst(found, sel) ==
    IF Len(found) = 0 THEN <<>>
    ELSE IF sel.all THEN found
    ELSE SubSeq(found, 1, 1)

\* the ids the handler goes on to mutate, or <<>> when it returns false
Selected(found, sel) ==
    IF Len(found) = 0 THEN <<>>
    ELSE IF ~sel.all /\ Len(found) < sel.quantity /\ ~sel.indexed THEN <<>>
    ELSE IF Len(found) > 1 /\ ~sel.indexed /\ ~sel.all /\ sel.quantity = 1 THEN <<>>
    ELSE IF sel.indexed
         THEN (IF sel.index + 1 <= Len(found) THEN <<found[sel.index + 1]>> ELSE <<>>)
    ELSE IF sel.all THEN found
    ELSE SubSeq(found, 1, sel.quantity)

\* itemsTo(Take|Drop).forEach: each item gets the new owner and location and
\* is saved
RECURSIVE MoveEach(_, _, _, _)
MoveEach(store, ids, owner, location) ==
    IF ids = <<>> THEN store
    ELSE LET item == [MapGet(store.items, Head(ids)) EXCEPT
                         !.owner = owner, !.location = location]
         IN  MoveEach([items |-> MapSet(store.items, item.id, item),
                       itemFiles |-> saveItem(store.itemFiles, item)],
                      Tail(ids), owner, location)

ItemActors ==
    [id : Owners, role : {"player"}, loc : RoomKeys]
    \cup [id : {"u1"}, role : {"visitor"}, loc : RoomKeys]

\* take.execute with an Item Store in its params
take(user, sel) ==
    /\ IF user.role = "visitor"
       THEN /\ UNCHANGED <<items, itemFiles>>
            /\ itemOp' = "undefined"
       ELSE LET cache == LoadEvery(items, itemFiles, 1)
                found == findItems(cache, [location |-> user.loc, name |-> sel.name])
                ids   == Selected(found, sel)
                out   == MoveEach([items |-> cache, itemFiles |-> itemFiles],
                                  ids, user.id, NULL)
            IN  /\ items' = out.items
                /\ itemFiles' = out.itemFiles
                /\ itemOp' = IF ids = <<>> THEN "false" ELSE "true"
    /\ UNCHANGED <<nextItem, cmdVars, sessVars>>

\* drop.execute with an Item Store in its params
drop(user, sel) ==
    /\ IF user.role = "visitor"
       THEN /\ UNCHANGED <<items, itemFiles>>
            /\ itemOp' = "undefined"
       ELSE LET cache == LoadEvery(items, itemFiles, 1)
                found == findItems(cache, [owner |-> user.id, name |-> sel.name])
                ids   == Selected(found, sel)
                out   == MoveEach([items |-> cache, itemFiles |-> itemFiles],
                                  ids, NULL, user.loc)
            IN  /\ items' = out.items
                /\ itemFiles' = out.itemFiles
                /\ itemOp' = IF ids = <<>> THEN "false" ELSE "true"
    /\ UNCHANGED <<nextItem, cmdVars, sessVars>>

-----------------------------------------------------------------------------
(* Session Registry (UserManager), Room Store (RoomManager) and the        *)
(* per-connection state machine (ClientHandler)                            *)

MaxConns    == 2    \* connections the server accepts in a run
MaxAccounts == 1    \* accounts user create adds to the stored one
MaxPending  == 1    \* reads of the welcome file in flight at a time

Conns == 1..MaxConns

\* uuid.v4(): one fresh id per connection, one per created account
SessionIdPool == <<"c1", "c2", "c3", "c4">>
AccountIdPool == <<"a1", "a2", "a3", "a4">>

\* a JavaScript string is a sequence of characters, a number is a natural;
\* a value carries its type, as typeof reports it
Str(chars) == [type |-> "string", value |-> chars]
Num(n) == [type |-> "number", value |-> n]

Digits == <<"0", "1", "2", "3", "4", "5", "6", "7", "8", "9">>

\* the decimal digits of a natural number
RECURSIVE DecimalString(_)
DecimalString(n) ==
    IF n < 10 THEN <<Digits[n + 1]>>
    ELSE DecimalString(n \div 10) \o <<Digits[(n % 10) + 1]>>

\* String(value)
String(v) == IF v.type = "number" THEN DecimalString(v.value) ELSE v.value

\* str.padStart(targetLength, "0")
padStart(chars, targetLength) ==
    IF Len(chars) >= targetLength THEN chars
    ELSE [i \in 1..(targetLength - Len(chars)) |-> "0"] \o chars

\* process.env.START_ZONE || '000', process.env.START_ROOM || '000'
StartZone == Str(<<"0", "0", "0">>)
StartRoom == Str(<<"0", "0", "0">>)

\* pad with the padding left out
padNone(number) == String(number)

\* String(number).padStart(3, "0")
pad(number) == padStart(String(number), 3)

\* getRoomKey: `${paddedZoneId}:${paddedRoomId}`
getRoomKey(zoneId, roomId) == pad(zoneId) \o <<":">> \o pad(roomId)

\* getRoomFilename: `${this.getRoomKey(zoneId, roomId)}.json`
getRoomFilename(zoneId, roomId) ==
    getRoomKey(zoneId, roomId) \o <<".", "j", "s", "o", "n">>

\* the path exists probes: `${this.roomPath}/${roomKey}.json`, as the name of
\* the file in the rooms directory
existsFilename(roomKey) == roomKey \o <<".", "j", "s", "o", "n">>

\* value || fallback
OrElse(value, fallback) == IF Truthy(value) THEN value ELSE fallback

\* a room with no way out: exits is an object keyed by direction
NoExits == [direction \in {} |-> <<>>]

\* new Room(data): absent options take their defaults (the exits of a
\* record are an object, which is truthy)
Room(data) ==
    [roomId    |-> data.roomId,
     zoneId    |-> data.zoneId,
     name      |-> data.name,
     locked    |-> OrElse(data.locked, JFALSE),
     temporary |-> OrElse(data.temporary, JTRUE),
     exits     |-> data.exits]

\* a room record as the rooms directory holds it
RoomData(zone, room, name, locked) ==
    [roomId |-> room, zoneId |-> zone, name |-> name, locked |-> locked,
     temporary |-> UNDEF, exits |-> NoExits]

StartRoomData == RoomData("000", "000", "Town Square", UNDEF)

\* crypto.pbkdf2Sync(password, salt, ...): one digest per password and salt
Salt == "s1"
pbkdf2(password, salt) ==
    CASE password = "pw1" -> "digest(pw1,s1)"
      [] OTHER -> "digest(bad,s1)"

hashPassword(password) == [salt |-> Salt, password |-> pbkdf2(password, Salt)]

checkPassword(password, salt, hash) == pbkdf2(password, salt) = hash

\* new User(): the temporary visitor a connection starts as
NewUser(c) ==
    [id        |-> SessionIdPool[c],
     zoneId    |-> Str(<<"-", "9", "9", "9">>),
     roomId    |-> Str(<<"0", "0", "1">>),
     status    |-> "login",
     firstName |-> "Ghost",
     lastName  |-> "Walker",
     role      |-> "visitor",
     password  |-> "",
     salt      |-> UNDEF,
     temporary |-> JTRUE,
     online    |-> JFALSE]

\* fields of a User the model does not carry (title, description, ...)
UntrackedFields == {"title", "description", "clothing", "holding", "wielding"}

\* _.omit(user, ['client', 'eventEmitter', 'status', 'online'])
PersistedFields ==
    {"id", "zoneId", "roomId", "firstName", "lastName", "role", "password",
     "salt", "temporary"}

\* the projection with nothing left out
wholeUser(user) == user

simplifiedUser(user) == [f \in PersistedFields |-> user[f]]

\* the account the users directory holds when the server starts
StoredAccount ==
    [id        |-> "a0",
     zoneId    |-> StartZone,
     roomId    |-> StartRoom,
     firstName |-> "Ann",
     lastName  |-> "Lee",
     role      |-> "player",
     password  |-> pbkdf2("pw1", Salt),
     salt      |-> Salt,
     temporary |-> JFALSE]

\* _.filter(this.users, "online")
getOnlineUsers(W) == SelectSeq(W.users, LAMBDA c : Truthy(W.sess[c].online))

\* _.filter(this.users, {status: "active"})
getActiveUsers(W) == SelectSeq(W.users, LAMBDA c : W.sess[c].status = "active")

\* _.find(getOnlineUsers(), {id}): the first online session with the id, or 0
getUser(W, id) ==
    LET found == SelectSeq(getOnlineUsers(W), LAMBDA c : W.sess[c].id = id)
    IN  IF found = <<>> THEN 0 ELSE Head(found)

\* the callback of send with the test for a match dropped: something is
\* written for every id
sendAnyway(W, id, message) ==
    [W EXCEPT !.sent = Append(@, [to |-> getUser(W, id), msg |-> message])]

\* the callback of _.forEach in send: the id is resolved among the online
\* sessions and the text written to the connection of the match; an id with
\* no match is logged
sendOne(W, id, message) ==
    LET user == getUser(W, id)
    IN  IF user # 0
        THEN [W EXCEPT !.sent = Append(@, [to |-> user, msg |-> message])]
        ELSE W

\* send: the callback runs for each id in turn
RECURSIVE send(_, _, _)
send(W, userIds, message) ==
    IF userIds = <<>> THEN W
    ELSE send(sendOne(W, Head(userIds), message), Tail(userIds), message)

\* broadcast: send({id: user.id}, message) for every active session
broadcast(W, message) ==
    LET active == getActiveUsers(W)
    IN  send(W, [i \in 1..Len(active) |-> W.sess[active[i]].id], message)

\* removeUser: _.remove(this.users, {id})
removeUser(W, id) ==
    [W EXCEPT !.users = SelectSeq(@, LAMBDA c : W.sess[c].id # id)]

\* RoomManager.exists: the cache, then the backing store
exists(W, zoneId, roomId) ==
    LET roomKey == getRoomKey(zoneId, roomId)
    IN  MapHas(W.rooms, roomKey) \/ MapHas(W.roomFiles, existsFilename(roomKey))

\* RoomManager.loadRoom, as it leaves the Room Store: a cached room is
\* returned as it is, a missing one changes nothing, and a stored one is
\* read, constructed and cached (source remembers the record it was read
\* from)
loadRoom(W, zoneId, roomId) ==
    LET roomKey  == getRoomKey(zoneId, roomId)
        filename == getRoomFilename(zoneId, roomId)
    IN  IF MapHas(W.rooms, roomKey) THEN W
        ELSE IF ~exists(W, zoneId, roomId) THEN W
        ELSE IF ~MapHas(W.roomFiles, filename) THEN W    \* require throws
        ELSE [W EXCEPT
                 !.rooms = MapSet(@, roomKey, Room(MapGet(W.roomFiles, filename))),
                 !.source = MapSet(@, roomKey, MapGet(W.roomFiles, filename)),
                 !.edited = @ \ {filename}]

\* what loadRoom returns: the Room, or false
loadRoomResult(W, zoneId, roomId) ==
    LET V == loadRoom(W, zoneId, roomId)
    IN  IF MapHas(V.rooms, getRoomKey(zoneId, roomId)) THEN "room" ELSE "false"

\* unloadRoom that empties the cache
unloadRoomAll(W, zoneId, roomId) ==
    LET roomKey == getRoomKey(zoneId, roomId)
    IN  IF ~MapHas(W.rooms, roomKey) THEN W
        ELSE [W EXCEPT
                 !.rooms = <<>>,
                 !.source = <<>>,
                 !.evicted = MapSet(@, roomKey,
                                    [room   |-> MapGet(W.rooms, roomKey),
                                     source |-> MapGet(W.source, roomKey)])]

\* unloadRoom that removes the backing record along with the cached room
unloadRoomAndFile(W, zoneId, roomId) ==
    LET roomKey == getRoomKey(zoneId, roomId)
    IN  IF ~MapHas(W.rooms, roomKey) THEN W
        ELSE [W EXCEPT
                 !.rooms = MapDelete(@, roomKey),
                 !.source = MapDelete(@, roomKey),
                 !.roomFiles = MapDelete(@, getRoomFilename(zoneId, roomId)),
                 !.evicted = MapSet(@, roomKey,
                                    [room   |-> MapGet(W.rooms, roomKey),
                                     source |-> MapGet(W.source, roomKey)])]

\* RoomManager.unloadRoom, as it leaves the Room Store: a room that is not
\* cached changes nothing; a cached one is deleted from the map (evicted
\* remembers the Room that was cached and the record it was read from)
unloadRoom(W, zoneId, roomId) ==
    LET roomKey == getRoomKey(zoneId, roomId)
    IN  IF ~MapHas(W.rooms, roomKey) THEN W
        ELSE [W EXCEPT
                 !.rooms = MapDelete(@, roomKey),
                 !.source = MapDelete(@, roomKey),
                 !.evicted = MapSet(@, roomKey,
                                    [room   |-> MapGet(W.rooms, roomKey),
                                     source |-> MapGet(W.source, roomKey)])]

\* what unloadRoom returns
unloadRoomResult(W, zoneId, roomId) ==
    IF MapHas(W.rooms, getRoomKey(zoneId, roomId)) THEN "true" ELSE "false"

\* userManager.send(user.id, text): one text of the given kind, from the
\* handler of connection c, addressed to the id of its session
tell(W, c, kind) == send(W, <<W.sess[c].id>>, [kind |-> kind, c |-> c])

\* the params object handleCommands builds for command.execute
HandlerParams(c, commandName, parameters, context) ==
    [command        |-> commandName,
     user           |-> c,
     userManager    |-> "userManager",
     roomManager    |-> "roomManager",
     data           |-> parameters,
     context        |-> context,
     commandHandler |-> "commandHandler",
     log            |-> "log"]

\* handleCommands calls command.execute with the params
invoke(W, params) == [W EXCEPT !.calls = Append(@, params)]

\* the active sessions in the room of session c, other than those with its id
roomPeople(W, c) ==
    SelectSeq(getActiveUsers(W),
              LAMBDA d : /\ W.sess[d].zoneId = W.sess[c].zoneId
                         /\ W.sess[d].roomId = W.sess[c].roomId
                         /\ W.sess[d].id # W.sess[c].id)

\* the "looks at the room" notice to the other occupants
tellRoomPeople(W, c, people) ==
    send(W, [i \in 1..Len(people) |-> W.sess[people[i]].id],
         [kind |-> "looks", c |-> c])

\* lookAtRoom, in the world V that loadRoom left: with no room the actor is
\* told so; otherwise the description is built, which asks
\* params.itemManager for the items of the room, then sent to the actor, and
\* the occupants are told unless the context is "emit"
lookAtRoom(V, c, params) ==
    IF ~MapHas(V.rooms, getRoomKey(V.sess[c].zoneId, V.sess[c].roomId))
    THEN [w |-> tell(V, c, "output"), result |-> "returned"]
    ELSE IF "itemManager" \notin DOMAIN params
    THEN [w |-> V, result |-> "threw"]
    ELSE IF params.context # "emit"
    THEN [w |-> tellRoomPeople(tell(V, c, "room"), c, roomPeople(V, c)),
          result |-> "returned"]
    ELSE [w |-> tell(V, c, "room"), result |-> "returned"]

\* look.execute with no data: the room of the actor is loaded, then
\* lookAtRoom runs
look(W, c, params) ==
    lookAtRoom(loadRoom(W, W.sess[c].zoneId, W.sess[c].roomId), c, params)

\* the user_move listener: handleCommands runs "look" with context "emit";
\* what it returns is dropped
emitUserMove(W, c) ==
    IF MapGet(commands, "look") # "look" THEN W
    ELSE LET params == HandlerParams(c, "look", <<>>, "emit")
         IN  look(invoke(W, params), c, params).w

\* userIds.forEach in moveUser: getUser, overwrite zone and room, emit
RECURSIVE MoveEachUser(_, _, _, _)
MoveEachUser(W, userIds, zoneId, roomId) ==
    IF userIds = <<>> THEN [w |-> W, result |-> "true"]
    ELSE LET c == getUser(W, Head(userIds))
         IN  IF c = 0
             THEN [w |-> W, result |-> "throw"]   \* user is undefined
             ELSE MoveEachUser(
                      emitUserMove([W EXCEPT !.sess[c].zoneId = zoneId,
                                             !.sess[c].roomId = roomId], c),
                      Tail(userIds), zoneId, roomId)

\* moveUser: with no room, this.send([user.id], ...) names a variable that
\* is not in scope, which raises a ReferenceError before `return false`
moveUser(W, userIds, zoneId, roomId) ==
    IF ~exists(W, zoneId, roomId)
    THEN [w |-> W, result |-> "throw"]
    ELSE MoveEachUser(loadRoom(W, zoneId, roomId), userIds, zoneId, roomId)

\* _.filter(this.users, {zoneId, roomId}), less the sessions with the id of
\* the actor: the ids the notice is sent to
OtherRoomUsers(W, zoneId, roomId, id) ==
    LET found == SelectSeq(W.users, LAMBDA d : /\ W.sess[d].zoneId = zoneId
                                               /\ W.sess[d].roomId = roomId
                                               /\ W.sess[d].id # id)
    IN  [i \in 1..Len(found) |-> W.sess[found[i]].id]

\* directionMap and its values
LongDirections == {"north", "south"}

directionMap(token) ==
    CASE token = "n" -> "north"
      [] token = "s" -> "south"
      [] OTHER -> UNDEF

\* the direction walk settles on from the verb and the rest of the line
Direction(command, data) ==
    IF command \in LongDirections THEN command
    ELSE IF directionMap(command) # UNDEF THEN directionMap(command)
    ELSE IF Len(data) # 1 THEN UNDEF
    ELSE IF directionMap(data[1]) # UNDEF THEN directionMap(data[1])
    ELSE data[1]

\* exit.split(":"): the text before the first colon and the text after it
Colon(exit) == CHOOSE i \in 1..Len(exit) : exit[i] = ":" /\ \A j \in 1..(i - 1) : exit[j] # ":"

nextZoneId(exit) == Str(SubSeq(exit, 1, Colon(exit) - 1))

nextRoomId(exit) == Str(SubSeq(exit, Colon(exit) + 1, Len(exit)))

\* walk after moveUser returned true: the notice to those left behind, the
\* notice to those in the next room, and the confirmation to the actor
Notified(W, c, id, zoneId, roomId, exit) ==
    send(send(send(W, OtherRoomUsers(W, zoneId, roomId, id),
                   [kind |-> "leaving", c |-> c]),
              OtherRoomUsers(W, nextZoneId(exit), nextRoomId(exit), id),
              [kind |-> "entering", c |-> c]),
         <<id>>, [kind |-> "moved", c |-> c])

\* walk after moveUser
Walked(M, c, id, zoneId, roomId, exit) ==
    IF M.result = "throw" THEN [w |-> M.w, result |-> "threw"]
    ELSE [w |-> Notified(M.w, c, id, zoneId, roomId, exit), result |-> "returned"]

\* walk once the exit is known
walkTo(V, c, exit) ==
    IF ~exists(V, nextZoneId(exit), nextRoomId(exit))
    THEN [w |-> tell(V, c, "output"), result |-> "returned"]
    ELSE Walked(moveUser(V, <<V.sess[c].id>>, nextZoneId(exit), nextRoomId(exit)),
                c, V.sess[c].id, V.sess[c].zoneId, V.sess[c].roomId, exit)

\* walk in the world V that loadRoom left
walkFrom(V, c, direction, roomKey) ==
    IF direction \notin LongDirections
    THEN [w |-> tell(V, c, "output"), result |-> "returned"]
    ELSE IF ~MapHas(V.rooms, roomKey)
    THEN [w |-> V, result |-> "threw"]      \* currentRoom is false
    ELSE IF direction \notin DOMAIN MapGet(V.rooms, roomKey).exits
    THEN [w |-> tell(V, c, "output"), result |-> "returned"]
    ELSE walkTo(V, c, MapGet(V.rooms, roomKey).exits[direction])

\* walk.execute
walk(W, c, params) ==
    walkFrom(loadRoom(W, W.sess[c].zoneId, W.sess[c].roomId), c,
             Direction(params.command, params.data),
             getRoomKey(W.sess[c].zoneId, W.sess[c].roomId))

\* getRoomUsers(zoneId, roomId).map((person) => person.id)
getRoomUsers(W, zoneId, roomId) ==
    LET found == SelectSeq(W.users, LAMBDA d : /\ W.sess[d].zoneId = zoneId
                                               /\ W.sess[d].roomId = roomId)
    IN  [i \in 1..Len(found) |-> W.sess[found[i]].id]

\* the keys of an exits object, in the order _.forEach visits them
ExitOrder == <<"north", "east", "south", "down">>

\* the exits of the room the Room Store returned, in that order; loadRoom
\* returned false when the room is not cached, and false.exits is undefined
exitsOf(V, roomKey) ==
    IF ~MapHas(V.rooms, roomKey) THEN <<>>
    ELSE LET kept == SelectSeq(ExitOrder,
                               LAMBDA d : d \in DOMAIN MapGet(V.rooms, roomKey).exits)
         IN  [i \in 1..Len(kept) |-> MapGet(V.rooms, roomKey).exits[kept[i]]]

\* _.forEach(exits, ...) of sendLocally: the "from nearby" copy goes to
\* every session in the room each exit leads to
RECURSIVE sendNearby(_, _, _, _)
sendNearby(V, c, id, exits) ==
    IF exits = <<>> THEN V
    ELSE sendNearby(send(V, getRoomUsers(V, nextZoneId(Head(exits)),
                                         nextRoomId(Head(exits))),
                         [kind |-> "nearby", c |-> c]),
                    c, id, Tail(exits))

\* sendInRoom: the echo to the sender, then the copy to the others in the room
sendInRoom(W, c) ==
    send(send(W, <<W.sess[c].id>>, [kind |-> "echo", c |-> c]),
         OtherRoomUsers(W, W.sess[c].zoneId, W.sess[c].roomId, W.sess[c].id),
         [kind |-> "heard", c |-> c])

\* sendLocally: as sendInRoom, then the room is loaded and its exits followed
sendLocally(W, c) ==
    sendNearby(loadRoom(sendInRoom(W, c), W.sess[c].zoneId, W.sess[c].roomId),
               c, W.sess[c].id,
               exitsOf(loadRoom(W, W.sess[c].zoneId, W.sess[c].roomId),
                       getRoomKey(W.sess[c].zoneId, W.sess[c].roomId)))

\* sendGlobally: the echo, then the copy to every other active session
sendGlobally(W, c) ==
    LET active == SelectSeq(getActiveUsers(W), LAMBDA d : W.sess[d].id # W.sess[c].id)
    IN  send(send(W, <<W.sess[c].id>>, [kind |-> "echo", c |-> c]),
             [i \in 1..Len(active) |-> W.sess[active[i]].id],
             [kind |-> "heard", c |-> c])

\* say.execute (act.js and ooc.js have the same three scopes under their
\* own verbs): a visitor may only speak in the room
say(W, c, command, data) ==
    IF data = <<>> THEN [w |-> tell(W, c, "output"), result |-> "returned"]
    ELSE IF command \in {"yell", "shout"} /\ W.sess[c].role = "visitor"
    THEN [w |-> tell(W, c, "output"), result |-> "returned"]
    ELSE IF command = "yell" THEN [w |-> sendLocally(W, c), result |-> "returned"]
    ELSE IF command = "shout" THEN [w |-> sendGlobally(W, c), result |-> "returned"]
    ELSE [w |-> sendInRoom(W, c), result |-> "returned"]

\* save with the "temporary !== true" guard dropped
saveAlways(W, c) ==
    LET user == W.sess[c]
    IN  IF MapHas(W.accounts, user.id)
           /\ (MapGet(W.accounts, user.id).firstName # user.firstName
               \/ MapGet(W.accounts, user.id).lastName # user.lastName)
        THEN [w |-> W, result |-> "throw"]
        ELSE [w |-> [W EXCEPT !.accounts =
                        MapSet(@, user.id, simplifiedUser(user)),
                                !.wrote = Append(@, simplifiedUser(user))],
              result |-> "ok"]

\* UserManager.save: [w, result]
save(W, c) ==
    LET user == W.sess[c]
    IN  IF user.temporary = JTRUE THEN [w |-> W, result |-> "skip"]
        ELSE IF MapHas(W.accounts, user.id)
                /\ (MapGet(W.accounts, user.id).firstName # user.firstName
                    \/ MapGet(W.accounts, user.id).lastName # user.lastName)
        THEN [w |-> W, result |-> "throw"]
        ELSE [w |-> [W EXCEPT !.accounts =
                        MapSet(@, user.id, simplifiedUser(user)),
                                !.wrote = Append(@, simplifiedUser(user))],
              result |-> "ok"]

\* some stored account has this first and last name
NameTaken(W, firstName, lastName) ==
    \E i \in 1..Len(W.accounts) :
        /\ W.accounts[i].v.firstName = firstName
        /\ W.accounts[i].v.lastName = lastName

\* user create: the handler returns undefined on every path
userCreate(W, c, firstName, lastName, password) ==
    LET user == W.sess[c]
        id   == AccountIdPool[W.issued + 1]
        tempUser == [user EXCEPT !.id = id,
                                 !.salt = hashPassword(password).salt,
                                 !.password = hashPassword(password).password,
                                 !.firstName = firstName,
                                 !.lastName = lastName,
                                 !.temporary = JFALSE,
                                 !.role = "player"]
        persistedUser == simplifiedUser(tempUser)
    IN  IF ~Truthy(user.temporary)
        THEN [w |-> tell(W, c, "output"), result |-> "returned"]
        ELSE IF MapHas(W.accounts, id) \/ NameTaken(W, firstName, lastName)
        THEN [w |-> tell(W, c, "output"), result |-> "returned"]  \* create threw, caught
        ELSE LET V == [W EXCEPT
                          !.accounts = MapSet(@, id, persistedUser),
                          !.wrote = Append(@, persistedUser),
                          !.issued = @ + 1,
                          !.sess[c] = [f \in DOMAIN user |->
                                          IF f \in PersistedFields
                                          THEN persistedUser[f] ELSE user[f]]]
             IN  [w |-> broadcast(tell(V, c, "output"),
                                  [kind |-> "rename", c |-> c]),
                  result |-> "returned"]

\* verifyAndLoadUser: the index of the first stored account with the name,
\* or 0
FirstNamed(W, firstName, lastName) ==
    IF NameTaken(W, firstName, lastName)
    THEN CHOOSE i \in 1..Len(W.accounts) :
            /\ W.accounts[i].v.firstName = firstName
            /\ W.accounts[i].v.lastName = lastName
            /\ \A j \in 1..(i - 1) :
                   ~(/\ W.accounts[j].v.firstName = firstName
                     /\ W.accounts[j].v.lastName = lastName)
    ELSE 0

\* user login
userLogin(W, c, firstName, lastName, password) ==
    LET user == W.sess[c]
        i    == FirstNamed(W, firstName, lastName)
    IN  IF ~Truthy(user.temporary)
        THEN [w |-> tell(W, c, "output"), result |-> "returned"]
        ELSE IF i = 0 THEN [w |-> tell(W, c, "output"), result |-> "returned"]
        ELSE IF ~checkPassword(password, W.accounts[i].v.salt,
                               W.accounts[i].v.password)
        THEN [w |-> tell(W, c, "output"), result |-> "returned"]
        ELSE LET persistedUser == MapGet(W.accounts, W.accounts[i].v.id)
                 V == IF ~MapHas(W.accounts, W.accounts[i].v.id) THEN W   \* load gave false
                      ELSE [W EXCEPT !.sess[c] =
                              [f \in DOMAIN user |->
                                  IF f \in PersistedFields
                                  THEN persistedUser[f] ELSE user[f]]]
             IN  [w |-> broadcast(tell(emitUserMove(V, c), c, "output"),
                                  [kind |-> "rename", c |-> c]),
                  result |-> "returned"]

\* user set after save: an error of save leaves the handler; otherwise the
\* two confirmations are sent
userSetSaved(saved, c) ==
    IF saved.result = "throw"
    THEN [w |-> saved.w, result |-> "threw"]
    ELSE [w |-> tell(tell(saved.w, c, "output"), c, "output"),
          result |-> "returned"]

\* user set <key> <value>: any own property of the session can be set
userSet(W, c, key, value) ==
    IF Truthy(W.sess[c].temporary)
    THEN [w |-> tell(W, c, "output"), result |-> "returned"]
    ELSE IF key \notin DOMAIN W.sess[c] \cup UntrackedFields
    THEN [w |-> tell(W, c, "output"), result |-> "returned"]
    ELSE userSetSaved(save(IF key \in DOMAIN W.sess[c]
                           THEN [W EXCEPT !.sess[c][key] = value] ELSE W, c), c)

\* take.execute, an async function, as handleCommands calls it: the params
\* carry no itemManager, so the first use of it rejects the promise
takeNoStore(W, c, data) ==
    IF W.sess[c].role = "visitor"
    THEN [w |-> tell(W, c, "output"), result |-> "resolved"]
    ELSE IF data = <<>> THEN [w |-> tell(W, c, "output"), result |-> "resolved"]
    ELSE [w |-> W, result |-> "rejected"]

\* welcome.execute returns a promise at once; the page is sent when the
\* read of the welcome file completes
welcome(W, c) == [w |-> [W EXCEPT !.pending = Append(@, c)], result |-> "pending"]

\* the read completes: manageUserMessages sends the page and the footer
manageUserMessages(W, c) == tell(tell(W, c, "output"), c, "output")

\* user.execute: the argument checks, then the action
userExecute(W, c, data) ==
    IF data = <<>> \/ data[1] \notin {"create", "login", "set", "get"}
    THEN [w |-> tell(W, c, "output"), result |-> "returned"]
    ELSE IF data[1] \in {"create", "login"} /\ Len(data) # 4
    THEN [w |-> tell(W, c, "output"), result |-> "returned"]
    ELSE IF data[1] = "create"
    THEN userCreate(W, c, data[2], data[3], data[4])
    ELSE IF data[1] = "login"
    THEN userLogin(W, c, data[2], data[3], data[4])
    ELSE IF data[1] = "set" /\ Len(data) >= 3
    THEN userSet(W, c, data[2], data[3])
    ELSE [w |-> tell(W, c, "output"), result |-> "returned"]

\* command.execute for the definition the verb resolves to: [w, result,
\* value], the value being what the handler returns or its promise settles
\* to (look returns true; user, take and welcome return or resolve undefined
\* on the paths modelled)
execute(W, c, command, params) ==
    IF command = "take" THEN takeNoStore(W, c, params.data)
    ELSE IF command = "user" THEN userExecute(W, c, params.data)
    ELSE IF command = "welcome" THEN welcome(W, c)
    ELSE IF command = "look" THEN look(W, c, params)
    ELSE IF command = "walk" THEN walk(W, c, params)
    ELSE [w |-> W, result |-> "returned"]

\* what the handler gave back: nothing after a throw or a rejection, true
\* from look, undefined otherwise
HandlerValue(out, command) ==
    IF out.result \in {"threw", "rejected"} THEN "none"
    ELSE IF command = "look" THEN "true"
    ELSE "undefined"

\* the end of handleCommands: true after the call, false from the catch
Dispatched(out, command) ==
    [w |-> out.w, handler |-> out.result, value |-> HandlerValue(out, command),
     dispatch |-> IF out.result = "threw" THEN "false" ELSE "true"]

\* handleCommands: [w, handler, value, dispatch]; a synchronous throw is
\* caught and reported as false, anything else the handler does is reported
\* as true
handleCommands(W, c, line, context) ==
    IF ~MapHas(commands, Head(line))
    THEN [w |-> W, handler |-> "none", value |-> "none", dispatch |-> "false"]
    ELSE Dispatched(execute(invoke(W, HandlerParams(c, Head(line), Tail(line), context)),
                            c, MapGet(commands, Head(line)),
                            HandlerParams(c, Head(line), Tail(line), context)),
                    MapGet(commands, Head(line)))

\* getAllCommands: every key of the map and every alias of its definitions
getAllCommands ==
    MapKeys(commands) \cup
    UNION {{CommandCatalog[commands[i].v].aliases[j] :
               j \in 1..Len(CommandCatalog[commands[i].v].aliases)} :
           i \in 1..Len(commands)}

LowerToken(t) ==
    CASE t = "Y" -> "y"
      [] t = "N" -> "n"
      [] t = "USER" -> "user"
      [] OTHER -> t

NoRet == [handler |-> "none", dispatch |-> "none", moveUser |-> "none",
          save |-> "none", value |-> "none", logged |-> FALSE,
          api |-> "none", ids |-> <<>>, args |-> <<>>, key |-> <<>>]

\* sendPrompt: only an active session is prompted
sendPrompt(W, c) ==
    IF W.sess[c].status = "active" THEN tell(W, c, "prompt") ELSE W

\* the data handler after handleCommands: the failure is logged when the
\* dispatch reported false, then the prompt
AfterCommand(out, c) ==
    [w |-> sendPrompt(out.w, c),
     ret |-> [NoRet EXCEPT !.handler = out.handler,
                           !.dispatch = out.dispatch,
                           !.value = out.value,
                           !.logged = (out.dispatch = "false")]]

\* the welcome_pause case after moveUser
AfterMove(M, c) ==
    [w |-> sendPrompt(M.w, c), ret |-> [NoRet EXCEPT !.moveUser = M.result]]

\* checkTerminalCapabilities and the rest of the data handler for one line
\* (already trimmed and split on spaces): [w, ret]
handleData(W, c, line) ==
    IF W.sess[c].status = "colorCheck"
    THEN [w |-> IF Len(line) = 1 /\ LowerToken(line[1]) \in {"y", "n"}
                THEN sendPrompt([W EXCEPT !.sess[c].status = "asciiCheck"], c)
                ELSE sendPrompt(W, c),
          ret |-> NoRet]
    ELSE IF W.sess[c].status = "asciiCheck"
    THEN [w |-> IF Len(line) = 1 /\ LowerToken(line[1]) \in {"y", "n"}
                THEN sendPrompt([W EXCEPT !.sess[c].status = "welcome_pause"], c)
                ELSE sendPrompt(W, c),
          ret |-> NoRet]
    ELSE IF W.sess[c].status = "welcome_pause"
    THEN AfterMove(moveUser(broadcast([W EXCEPT !.sess[c].status = "active"],
                                      [kind |-> "join", c |-> c]),
                            <<W.sess[c].id>>, StartZone, StartRoom), c)
    ELSE IF line = <<>> THEN [w |-> sendPrompt(W, c), ret |-> NoRet]
    ELSE IF LowerToken(Head(line)) \notin getAllCommands
    THEN [w |-> sendPrompt(tell(W, c, "notfound"), c), ret |-> NoRet]
    ELSE AfterCommand(handleCommands(W, c, <<LowerToken(Head(line))>> \o Tail(line),
                                     "user"), c)

\* the lines a connection sends
Lines ==
    { <<>>, <<"y">>, <<"N">>, <<"hello">>,
      <<"user", "create", "Ann", "Lee", "pw1">>,
      <<"user", "create", "Bob", "Lee", "pw1">>,
      <<"user", "login", "Ann", "Lee", "pw1">>,
      <<"user", "login", "Ann", "Lee", "nope">>,
      <<"user", "set", "title", "Sir">>,
      <<"user", "set", "status", "colorCheck">>,
      <<"user", "set", "id", "zz">>,
      <<"user", "set", "firstName", "Zed">>,
      <<"take", "coin">> }

\* the lines of the runs that look at the data handler itself
DataLines ==
    { <<>>, <<"y">>, <<"hello">>, <<"USER">>, <<"welcome">>, <<"look">>,
      <<"take", "coin">>,
      <<"user", "login", "Ann", "Lee", "pw1">> }

\* the listener accepts a connection: the ClientHandler constructor
Connect(c) ==
    /\ world.alive
    /\ world.conn[c] = "free"
    /\ \A d \in 1..(c - 1) : world.conn[d] # "free"
    /\ world' = [world EXCEPT
                    !.conn[c] = "open",
                    !.users = Append(@, c),
                    !.sess[c] = [NewUser(c) EXCEPT !.online = JTRUE,
                                                   !.status = "colorCheck"],
                    !.sent = <<>>,
                    !.wrote = <<>>,
                    !.calls = <<>>]
    /\ ret' = NoRet
    /\ UNCHANGED <<cmdVars, itemVars>>

\* the step the data handler leaves: its world and what it reported
Handled(out) ==
    /\ \E exits \in IF out.ret.handler = "rejected" THEN BOOLEAN ELSE {FALSE} :
           world' = [out.w EXCEPT !.alive = ~exits]
    /\ ret' = out.ret

\* the "data" event.  A promise the handler rejected is left unhandled:
\* the runtime then warns or ends the process, depending on its version.
Data(c, line) ==
    /\ world.alive
    /\ world.conn[c] = "open"
    /\ line # <<>> /\ Len(line) > 1 /\ line[2] = "create"
          => world.issued < MaxAccounts
    /\ line # <<>> /\ LowerToken(Head(line)) = "welcome"
          => Len(world.pending) < MaxPending
    /\ Handled(handleData([world EXCEPT !.sent = <<>>, !.wrote = <<>>,
                                        !.calls = <<>>], c, line))
    /\ UNCHANGED <<cmdVars, itemVars>>

\* the close handler after save: an error leaves the handler there;
\* otherwise the session is removed and the departure broadcast
Saved(saved, c) ==
    IF saved.result = "throw"
    THEN /\ world' = [saved.w EXCEPT !.alive = FALSE]
         /\ ret' = [NoRet EXCEPT !.save = "throw"]
    ELSE /\ world' = broadcast(removeUser(saved.w, saved.w.sess[c].id),
                               [kind |-> "depart", c |-> c])
         /\ ret' = [NoRet EXCEPT !.save = saved.result]

\* the "close" event.  An error save raises is not caught by anything: the
\* handler stops there and the process ends.
Close(c) ==
    /\ world.alive
    /\ world.conn[c] = "open"
    /\ Saved(save([world EXCEPT !.sent = <<>>, !.wrote = <<>>, !.calls = <<>>,
                                !.conn[c] = "closed",
                                !.sess[c].online = JFALSE], c), c)
    /\ UNCHANGED <<cmdVars, itemVars>>

\* the read of the welcome file that a welcome command started completes
WelcomeRead(i) ==
    /\ world.alive
    /\ i \in 1..Len(world.pending)
    /\ world' = [manageUserMessages([world EXCEPT !.sent = <<>>, !.wrote = <<>>,
                                                  !.calls = <<>>],
                                    world.pending[i])
                    EXCEPT !.pending = [j \in 1..(Len(@) - 1) |->
                                           IF j < i THEN @[j] ELSE @[j + 1]]]
    /\ ret' = NoRet
    /\ UNCHANGED <<cmdVars, itemVars>>

\* the ids a caller of the User Directory passes: the ids of the sessions,
\* the id of the stored account, and an id no session has
ApiIds == {SessionIdPool[c] : c \in Conns} \cup {StoredAccount.id, "nobody"}

MaxIds == 2

IdLists == UNION {[1..n -> ApiIds] : n \in 1..MaxIds}

\* a room the rooms directory does not hold
MissingRoom == Str(<<"0", "0", "9">>)

\* the lines of the runs that call the User Directory
ApiLines == { <<"y">>, <<"user", "login", "Ann", "Lee", "pw1">> }

\* the step a call of moveUser leaves
Moved(M, userIds) ==
    /\ world' = M.w
    /\ ret' = [NoRet EXCEPT !.api = "moveUser", !.ids = userIds,
                            !.moveUser = M.result]

\* a caller runs userManager.moveUser(userIds, zoneId, roomId).  An error
\* raised in the forEach leaves the sessions it handled so far moved.
CallMoveUser(userIds, zoneId, roomId) ==
    /\ world.alive
    /\ Moved(moveUser([world EXCEPT !.sent = <<>>, !.wrote = <<>>,
                                    !.calls = <<>>],
                      userIds, zoneId, roomId), userIds)
    /\ UNCHANGED <<cmdVars, itemVars>>

\* a caller runs userManager.send(userIds, message)
CallSend(userIds) ==
    /\ world.alive
    /\ world' = send([world EXCEPT !.sent = <<>>, !.wrote = <<>>, !.calls = <<>>],
                     userIds, [kind |-> "text", c |-> 0])
    /\ ret' = [NoRet EXCEPT !.api = "send", !.ids = userIds]
    /\ UNCHANGED <<cmdVars, itemVars>>

\* a line whose verb the command table resolves to say.js reaches the data
\* handler of a session that is past the terminal checks
Say(c, command) ==
    /\ world.alive
    /\ world.conn[c] = "open"
    /\ world.sess[c].status \notin {"colorCheck", "asciiCheck", "welcome_pause"}
    /\ world' = sendPrompt(say([world EXCEPT !.sent = <<>>, !.wrote = <<>>,
                                             !.calls = <<>>],
                               c, command, <<"hi">>).w, c)
    /\ ret' = [NoRet EXCEPT !.api = command, !.args = <<c>>]
    /\ UNCHANGED <<cmdVars, itemVars>>

\* the rooms the Room Store is asked for, by number
RoomNumbers == {7, 42, 123}

\* the ways a caller writes the id n: the number, its digits, and its digits
\* padded to three
ThreeDigits(n) ==
    <<Digits[(n \div 100) + 1], Digits[((n \div 10) % 10) + 1], Digits[(n % 10) + 1]>>

Forms(n) == {Num(n), Str(DecimalString(n)), Str(ThreeDigits(n))}

ZoneIds == Forms(0)

RoomIds == UNION {Forms(n) : n \in RoomNumbers}

\* the records of the rooms directory: rooms 7 and 123 of zone 0
WellData == RoomData("000", "007", "Well", JTRUE)

WellDataEdited == [RoomData("000", "007", "Dry Well", UNDEF) EXCEPT !.temporary = JFALSE]

RoomStoreFiles ==
    <<[k |-> getRoomFilename(Num(0), Num(7)), v |-> WellData],
      [k |-> getRoomFilename(Num(0), Num(123)), v |-> RoomData("000", "123", "Gate", UNDEF)]>>

\* a caller runs roomManager.loadRoom(zoneId, roomId)
CallLoadRoom(zoneId, roomId) ==
    /\ world' = loadRoom(world, zoneId, roomId)
    /\ ret' = [NoRet EXCEPT !.api = "loadRoom", !.args = <<zoneId, roomId>>,
                            !.key = getRoomKey(zoneId, roomId),
                            !.value = loadRoomResult(world, zoneId, roomId)]
    /\ UNCHANGED <<cmdVars, itemVars>>

\* a caller runs roomManager.unloadRoom(zoneId, roomId)
CallUnloadRoom(zoneId, roomId) ==
    /\ world' = unloadRoom(world, zoneId, roomId)
    /\ ret' = [NoRet EXCEPT !.api = "unloadRoom", !.args = <<zoneId, roomId>>,
                            !.key = getRoomKey(zoneId, roomId),
                            !.value = unloadRoomResult(world, zoneId, roomId)]
    /\ UNCHANGED <<cmdVars, itemVars>>

\* a caller runs roomManager.exists(zoneId, roomId)
CallExists(zoneId, roomId) ==
    /\ world' = world
    /\ ret' = [NoRet EXCEPT !.api = "exists", !.args = <<zoneId, roomId>>,
                            !.key = getRoomKey(zoneId, roomId),
                            !.value = IF exists(world, zoneId, roomId)
                                      THEN "true" ELSE "false"]
    /\ UNCHANGED <<cmdVars, itemVars>>

\* Number(chars) for the text of a room key part: the value of a run of
\* digits, and NaN (no natural number) for anything else
RECURSIVE StringToNumber(_)
StringToNumber(chars) ==
    IF chars = <<>> THEN 0
    ELSE IF \A i \in 1..Len(chars) : \E n \in 1..10 : Digits[n] = chars[i]
    THEN 10 * StringToNumber(SubSeq(chars, 1, Len(chars) - 1))
         + (CHOOSE n \in 0..9 : Digits[n + 1] = chars[Len(chars)])
    ELSE -1

\* field == part, the loose equality of a session field and a text: two
\* strings compare as texts, a number compares with the number the text reads as
looseEquals(field, part) ==
    IF field.type = "string" THEN field.value = part.value
    ELSE field.value = StringToNumber(part.value)

\* !users.some(user => user.zoneId == zoneId && user.roomId == roomId)
isRoomEmpty(W, zoneId, roomId) ==
    ~\E i \in 1..Len(W.users) : /\ looseEquals(W.sess[W.users[i]].zoneId, zoneId)
                                /\ looseEquals(W.sess[W.users[i]].roomId, roomId)

\* roomManager.rooms.forEach((room, roomKey) => ...) of the interval callback
RECURSIVE unloadEmptyRooms(_, _)
unloadEmptyRooms(W, roomKeys) ==
    IF roomKeys = <<>> THEN W
    ELSE unloadEmptyRooms(
             IF isRoomEmpty(W, nextZoneId(Head(roomKeys)), nextRoomId(Head(roomKeys)))
             THEN unloadRoom(W, nextZoneId(Head(roomKeys)), nextRoomId(Head(roomKeys)))
             ELSE W,
             Tail(roomKeys))

\* the interval elapses and the callback runs
Sweep ==
    /\ world.alive
    /\ world' = unloadEmptyRooms([world EXCEPT !.sent = <<>>, !.wrote = <<>>,
                                               !.calls = <<>>],
                                 [i \in 1..Len(world.rooms) |-> world.rooms[i].k])
    /\ ret' = [NoRet EXCEPT !.api = "sweep"]
    /\ UNCHANGED <<cmdVars, itemVars>>

\* a builder edits the record of room 7 in the rooms directory
EditRoomFile ==
    /\ LET filename == getRoomFilename(Num(0), Num(7))
       IN  world' = [world EXCEPT
                        !.roomFiles = MapSet(@, filename,
                                             IF MapGet(@, filename) = WellData
                                             THEN WellDataEdited ELSE WellData),
                        !.edited = @ \cup {filename}]
    /\ ret' = NoRet
    /\ UNCHANGED <<cmdVars, itemVars>>

\* the criteria findItems is called with, keys in the order the caller
\* wrote them: item edit passes name and owner, drop owner and name, take
\* location and name, and the container searches a key no Item has
Criteria ==
    {<<[key |-> "name", value |-> n]>> : n \in QueryNames}
    \cup {<<[key |-> "name", value |-> Coin], [key |-> "owner", value |-> "u1"]>>,
          <<[key |-> "owner", value |-> "u1"], [key |-> "name", value |-> Coin]>>,
          <<[key |-> "location", value |-> "000:000"], [key |-> "name", value |-> Coin]>>,
          <<[key |-> "owner", value |-> "u1"], [key |-> "container", value |-> JTRUE]>>}

\* Object.keys(criteria).every(...) for one item: "true", "false", or "throw"
\* when toLowerCase is called on a name that is not a string
RECURSIVE every(_, _)
every(item, criteria) ==
    IF criteria = <<>> THEN "true"
    ELSE IF Head(criteria).key \notin DOMAIN item THEN "false"
    ELSE IF Head(criteria).key = "name" /\ item.name = NullName THEN "throw"
    ELSE IF Matches(item, Head(criteria).key, Head(criteria).value)
    THEN every(item, Tail(criteria))
    ELSE "false"

\* itemsArray.filter(...): the ids of the items every key matches, in Map
\* order, unless the callback threw
matchingItems(cache, criteria) ==
    IF \E i \in 1..Len(cache) : every(cache[i].v, criteria) = "throw"
    THEN [result |-> "throw", ids |-> <<>>]
    ELSE [result |-> "returned",
          ids |-> LET found == SelectSeq(cache,
                                 LAMBDA e : every(e.v, criteria) = "true")
                  IN  [i \in 1..Len(found) |-> found[i].k]]

\* the itemData of the runs that search the Item Store
FindItemData ==
    {[name |-> n, owner |-> "u1", location |-> NULL] : n \in {Coin, Coins}}

\* the field patches of the runs that search the Item Store
FindPatches == {[owner |-> NULL, location |-> "000:000"], [location |-> "000:000"]}

\* the records a builder writes into the items directory by hand: a file
\* that is not JSON, and a record whose name is null
HandWritten ==
    {Unparsable,
     [id |-> "x1", name |-> NullName, type |-> "bauble", owner |-> "u1",
      location |-> NULL]}

\* a builder writes x1.json, or removes it
WriteRecord(record) ==
    /\ itemFiles' = IF MapHas(itemFiles, "x1") THEN MapDelete(itemFiles, "x1")
                    ELSE MapSet(itemFiles, "x1", record)
    /\ itemOp' = "none"
    /\ UNCHANGED <<items, nextItem, cmdVars, sessVars>>

\* the step a call of findItems leaves: what loadItem cached stays cached
Found(cache, out, criteria) ==
    /\ items' = cache
    /\ itemOp' = out.result
    /\ ret' = [NoRet EXCEPT !.api = "findItems",
                            !.value = out.result, !.ids = out.ids]

\* a caller runs itemManager.findItems(criteria)
FindItems(criteria) ==
    /\ Found(LoadEvery(items, itemFiles, 1),
             matchingItems(LoadEvery(items, itemFiles, 1), criteria), criteria)
    /\ UNCHANGED <<itemFiles, nextItem, world, cmdVars>>

\* what take and drop answer the actor: nothing found, not enough found,
\* the request to specify one of several, or the items were moved
Answer(found, sel) ==
    IF Len(found) = 0 THEN "none"
    ELSE IF ~sel.all /\ Len(found) < sel.quantity /\ ~sel.indexed THEN "notenough"
    ELSE IF Len(found) > 1 /\ ~sel.indexed /\ ~sel.all /\ sel.quantity = 1 THEN "specify"
    ELSE IF sel.indexed /\ sel.index + 1 > Len(found) THEN "none"
    ELSE "done"

\* allItems.map((item, index) => `"${item.name}:${index + 1}"`)
Listing(cache, found) ==
    [i \in 1..Len(found) |-> [name |-> MapGet(cache, found[i]).name, index |-> i]]

\* the answer the handler sent, with the list it holds
Told(api, args, cache, found, answer) ==
    ret' = [NoRet EXCEPT !.api = api, !.args = args, !.value = answer,
                         !.ids = IF answer = "specify" THEN Listing(cache, found)
                                 ELSE <<>>]

\* take and drop after the search: the selected items are moved and the
\* actor is answered
Picked(api, user, cache, found, sel, owner, location) ==
    /\ items' = MoveEach([items |-> cache, itemFiles |-> itemFiles],
                         Selected(found, sel), owner, location).items
    /\ itemFiles' = MoveEach([items |-> cache, itemFiles |-> itemFiles],
                             Selected(found, sel), owner, location).itemFiles
    /\ itemOp' = IF Selected(found, sel) = <<>> THEN "false" ELSE "true"
    /\ Told(api, <<user, sel>>, cache, found, Answer(found, sel))

\* the visitor check of take, drop and item
Visitor(api, args) ==
    /\ UNCHANGED <<items, itemFiles>>
    /\ itemOp' = "undefined"
    /\ ret' = [NoRet EXCEPT !.api = api, !.args = args, !.value = "visitor"]

\* take.execute with an Item Store in its params, and what it sends
takeReply(user, sel) ==
    /\ IF user.role = "visitor" THEN Visitor("take", <<user, sel>>)
       ELSE Picked("take", user, LoadEvery(items, itemFiles, 1),
                   findItems(LoadEvery(items, itemFiles, 1),
                             [location |-> user.loc, name |-> sel.name]),
                   sel, user.id, NULL)
    /\ UNCHANGED <<nextItem, cmdVars, world>>

\* drop.execute with an Item Store in its params, and what it sends
dropReply(user, sel) ==
    /\ IF user.role = "visitor" THEN Visitor("drop", <<user, sel>>)
       ELSE Picked("drop", user, LoadEvery(items, itemFiles, 1),
                   findItems(LoadEvery(items, itemFiles, 1),
                             [owner |-> user.id, name |-> sel.name]),
                   sel, NULL, user.loc)
    /\ UNCHANGED <<nextItem, cmdVars, world>>

\* item edit <name>[:k|:all] <property> <value>: the items it updates
EditSelected(found, sel) ==
    IF Len(found) = 0 THEN <<>>
    ELSE IF sel.all THEN found
    ELSE IF sel.indexed
         THEN (IF sel.index + 1 <= Len(found) THEN <<found[sel.index + 1]>> ELSE <<>>)
    ELSE IF Len(found) > 1 THEN <<>>
    ELSE found

\* what item edit answers the actor
EditAnswer(found, sel) ==
    IF Len(found) = 0 THEN "none"
    ELSE IF sel.all THEN "done"
    ELSE IF sel.indexed
         THEN (IF sel.index + 1 <= Len(found) THEN "done" ELSE "none")
    ELSE IF Len(found) > 1 THEN "specify"
    ELSE "done"

\* updateItem on each id in turn; an error leaves the loop
RECURSIVE UpdateEach(_, _, _)
UpdateEach(store, ids, newData) ==
    IF ids = <<>> \/ store.result # "ok" THEN store
    ELSE UpdateEach(updateItemOutcome(store.items, store.itemFiles, Head(ids), newData),
                    Tail(ids), newData)

\* item edit after its updates: an error of updateItem leaves the handler
\* before anything is sent
Edited(args, out, cache, found, answer) ==
    /\ items' = out.items
    /\ itemFiles' = out.itemFiles
    /\ itemOp' = IF answer = "done" THEN out.result ELSE "undefined"
    /\ Told("item", args, cache, found, IF out.result = "ok" THEN answer ELSE "threw")

\* item.execute, action edit, with an Item Store in its params
itemEdit(user, sel, newData) ==
    /\ IF user.role = "visitor" THEN Visitor("item", <<user, sel, newData>>)
       ELSE Edited(<<user, sel, newData>>, UpdateEach([items |-> LoadEvery(items, itemFiles, 1),
                               itemFiles |-> itemFiles, result |-> "ok"],
                              EditSelected(findItems(LoadEvery(items, itemFiles, 1),
                                                     [name |-> sel.name, owner |-> user.id]),
                                           sel),
                              newData),
                   LoadEvery(items, itemFiles, 1),
                   findItems(LoadEvery(items, itemFiles, 1),
                             [name |-> sel.name, owner |-> user.id]),
                   EditAnswer(findItems(LoadEvery(items, itemFiles, 1),
                                        [name |-> sel.name, owner |-> user.id]),
                              sel))
    /\ UNCHANGED <<nextItem, cmdVars, world>>

\* the actor, the items and the commands of the selection scenarios
PickActors == {u \in ItemActors : u.id = "u1"}

PickItemData == {[name |-> n, owner |-> "u1", location |-> NULL] : n \in {Coin, Coins}}

PickSelections == {sel \in Selections : sel.name = Coin}

EditSelections == {sel \in Selections : sel.name = Coin /\ sel.quantity = 1}

EditData == {[type |-> "torch"], [type |-> UnknownType]}

InitCmdVars ==
    /\ commandFiles = {}
    /\ commands = AllCommands
    /\ loadedDefs = CommandFileNames

InitItemVars ==
    /\ items = <<>>
    /\ itemFiles = <<>>
    /\ nextItem = 0
    /\ itemOp = "none"

\* a rooms directory that holds the start room
StartRoomFiles ==
    <<[k |-> getRoomFilename(StartZone, StartRoom), v |-> StartRoomData]>>

\* no connection yet; the sessions of connections to come are placeholders
InitWorld(roomFiles) ==
    [users     |-> <<>>,
     conn      |-> [c \in Conns |-> "free"],
     sess      |-> [c \in Conns |-> NewUser(c)],
     accounts  |-> <<[k |-> StoredAccount.id, v |-> StoredAccount]>>,
     issued    |-> 0,
     rooms     |-> <<>>,
     source    |-> <<>>,
     evicted   |-> <<>>,
     edited    |-> {},
     roomFiles |-> roomFiles,
     sent      |-> <<>>,
     wrote     |-> <<>>,
     calls     |-> <<>>,
     pending   |-> <<>>,
     alive     |-> TRUE]

InitSessVars ==
    /\ world = InitWorld(StartRoomFiles)
    /\ ret = NoRet

InitCmd ==
    /\ commandFiles = CommandFileNames
    /\ commands = <<>>
    /\ loadedDefs = {}
    /\ InitItemVars
    /\ InitSessVars

NextCmd ==
    \/ \E file \in CommandFileNames : LoadCommandFile(file)
    \/ \E file \in CommandFileNames : SkipCommandFile(file)

SpecCmd == InitCmd /\ [][NextCmd]_vars

InitItems ==
    /\ InitCmdVars
    /\ InitItemVars
    /\ InitSessVars

\* the rooms directory holds the start room, or it does not
Init ==
    /\ InitCmdVars
    /\ InitItemVars
    /\ \E roomFiles \in {<<>>, StartRoomFiles} :
           world = InitWorld(roomFiles)
    /\ ret = NoRet

Next ==
    \/ \E c \in Conns : Connect(c)
    \/ \E c \in Conns, line \in Lines : Data(c, line)
    \/ \E c \in Conns : Close(c)

Spec == Init /\ [][Next]_vars

NextData ==
    \/ \E c \in Conns : Connect(c)
    \/ \E c \in Conns, line \in DataLines : Data(c, line)
    \/ \E c \in Conns : Close(c)
    \/ \E i \in 1..MaxPending : WelcomeRead(i)

SpecData == Init /\ [][NextData]_vars

NextApi ==
    \/ \E c \in Conns : Connect(c)
    \/ \E c \in Conns, line \in ApiLines : Data(c, line)
    \/ \E c \in Conns : Close(c)
    \/ \E userIds \in IdLists, roomId \in {StartRoom, MissingRoom} :
           CallMoveUser(userIds, StartZone, roomId)
    \/ \E userIds \in IdLists : CallSend(userIds)

SpecApi == Init /\ [][NextApi]_vars

InitRooms ==
    /\ InitCmdVars
    /\ InitItemVars
    /\ world = InitWorld(RoomStoreFiles)
    /\ ret = NoRet

NextRooms ==
    \/ \E zoneId \in ZoneIds, roomId \in RoomIds : CallLoadRoom(zoneId, roomId)
    \/ \E zoneId \in ZoneIds, roomId \in RoomIds : CallUnloadRoom(zoneId, roomId)
    \/ \E zoneId \in ZoneIds, roomId \in RoomIds : CallExists(zoneId, roomId)
    \/ EditRoomFile

SpecRooms == InitRooms /\ [][NextRooms]_vars

NextItems ==
    \/ \E d \in ItemData : createItem(d)
    \/ \E id \in IssuedIds, p \in Patches : updateItem(id, p)
    \/ \E id \in IssuedIds, o \in Owners \cup {NULL}, l \in RoomKeys \cup {NULL} :
           setItemOwnershipOrLocation(id, o, l)
    \/ \E id \in IssuedIds : SaveCached(id)
    \/ \E id \in IssuedIds : LoadItem(id)
    \/ \E id \in IssuedIds : deleteItem(id)
    \/ RestartItemManager
    \/ \E u \in ItemActors, sel \in Selections : take(u, sel)
    \/ \E u \in ItemActors, sel \in Selections : drop(u, sel)

SpecItems == InitItems /\ [][NextItems]_vars

NextFind ==
    \/ \E d \in FindItemData : createItem(d)
    \/ \E id \in IssuedIds, p \in FindPatches : updateItem(id, p)
    \/ RestartItemManager
    \/ \E record \in HandWritten : WriteRecord(record)
    \/ \E criteria \in Criteria : FindItems(criteria)

SpecFind == InitItems /\ [][NextFind]_vars

\* two rooms joined by an exit each way
TownSquare ==
    [StartRoomData EXCEPT !.exits = [north |-> <<"0", "0", "0", ":", "0", "0", "7">>]]

Well ==
    [RoomData("000", "007", "Well", UNDEF) EXCEPT
        !.exits = [south |-> <<"0", "0", "0", ":", "0", "0", "0">>]]

WalkRoomFiles ==
    <<[k |-> getRoomFilename(StartZone, StartRoom), v |-> TownSquare],
      [k |-> getRoomFilename(Str(<<"0", "0", "0">>), Str(<<"0", "0", "7">>)), v |-> Well]>>

WalkLines ==
    { <<"y">>, <<"north">>, <<"go", "s">>, <<"walk", "west">>,
      <<"user", "login", "Ann", "Lee", "pw1">> }

InitWalk ==
    /\ InitCmdVars
    /\ InitItemVars
    /\ world = InitWorld(WalkRoomFiles)
    /\ ret = NoRet

NextWalk ==
    \/ \E c \in Conns : Connect(c)
    \/ \E c \in Conns, line \in WalkLines : Data(c, line)
    \/ \E c \in Conns : Close(c)

SpecWalk == InitWalk /\ [][NextWalk]_vars

\* two exits of the square lead to the well; the well has an exit to the
\* square and one that leads back into the well
TalkSquare ==
    [StartRoomData EXCEPT !.exits = [north |-> <<"0", "0", "0", ":", "0", "0", "7">>,
                                     east  |-> <<"0", "0", "0", ":", "0", "0", "7">>]]

TalkWell ==
    [RoomData("000", "007", "Well", UNDEF) EXCEPT
        !.exits = [south |-> <<"0", "0", "0", ":", "0", "0", "0">>,
                   down  |-> <<"0", "0", "0", ":", "0", "0", "7">>]]

TalkRoomFiles ==
    <<[k |-> getRoomFilename(StartZone, StartRoom), v |-> TalkSquare],
      [k |-> getRoomFilename(Str(<<"0", "0", "0">>), Str(<<"0", "0", "7">>)), v |-> TalkWell]>>

TalkLines == { <<"y">>, <<"north">>, <<"user", "login", "Ann", "Lee", "pw1">> }

\* the rooms directory holds the two rooms, or it is empty
InitTalk ==
    /\ InitCmdVars
    /\ InitItemVars
    /\ \E roomFiles \in {<<>>, TalkRoomFiles} : world = InitWorld(roomFiles)
    /\ ret = NoRet

NextTalk ==
    \/ \E c \in Conns : Connect(c)
    \/ \E c \in Conns, line \in TalkLines : Data(c, line)
    \/ \E c \in Conns : Close(c)
    \/ \E c \in Conns, command \in {"say", "yell", "shout"} : Say(c, command)

SpecTalk == InitTalk /\ [][NextTalk]_vars

\* the forms in which a caller names room 7 of zone 0
SweepRoomIds == Forms(7)

NextSweep ==
    \/ \E c \in Conns : Connect(c)
    \/ \E c \in Conns : Close(c)
    \/ \E roomId \in {Num(7), Num(123)} : CallLoadRoom(StartZone, roomId)
    \/ \E c \in Conns, zoneId \in {StartZone}, roomId \in SweepRoomIds :
           /\ world.conn[c] = "open"
           /\ CallMoveUser(<<world.sess[c].id>>, zoneId, roomId)
    \/ Sweep

SpecSweep == InitRooms /\ [][NextSweep]_vars

\* the coin that lies in the start room, and the lines of two players there
TakeItemData == [name |-> Coin, owner |-> NULL, location |-> "000:000"]

TakeLines ==
    { <<"y">>, <<"take", "coin">>,
      <<"user", "login", "Ann", "Lee", "pw1">>,
      <<"user", "create", "Bob", "Lee", "pw1">> }

\* the server starts with the record of the coin in the items directory
InitTake ==
    /\ InitCmdVars
    /\ items = <<>>
    /\ itemFiles = saveItem(<<>>, NewItem(ItemIdPool[1], TakeItemData))
    /\ nextItem = 1
    /\ itemOp = "none"
    /\ world = InitWorld(StartRoomFiles)
    /\ ret = NoRet

NextTake ==
    \/ \E c \in Conns : Connect(c)
    \/ \E c \in Conns, line \in TakeLines : Data(c, line)
    \/ \E c \in Conns : Close(c)

SpecTake == InitTake /\ [][NextTake]_vars

NextPick ==
    \/ \E d \in PickItemData : createItem(d)
    \/ RestartItemManager
    \/ \E u \in PickActors, sel \in PickSelections : takeReply(u, sel)
    \/ \E u \in PickActors, sel \in PickSelections : dropReply(u, sel)
    \/ \E u \in PickActors, sel \in EditSelections, newData \in EditData :
           itemEdit(u, sel, newData)

SpecPick == InitItems /\ [][NextPick]_vars

-----------------------------------------------------------------------------
\* C1: in every reachable state of the Item Store no item, cached or
\* persisted, has both an owner and a location.
C1_OwnerLocationExclusive ==
    /\ \A i \in 1..Len(items) : ~BothSet(items[i].v)
    /\ \A i \in 1..Len(itemFiles) : ~BothSet(itemFiles[i].v)

\* C2: a rejected updateItem leaves the cache and the backing records as they
\* were before the call.
C2_RejectedUpdateChangesNothing ==
    [][itemOp' \in {"throw:type", "throw:both"}
          => (items' = items /\ itemFiles' = itemFiles)]_vars

-----------------------------------------------------------------------------
\* C7: once loadCommands has read every file, looking up the canonical name
\* and every declared alias of each loaded definition yields that definition.
C7_AliasesResolveToOwnDefinition ==
    commandFiles = {} =>
        \A file \in loadedDefs :
            /\ LookupCommand(CommandCatalog[file].name) = file
            /\ \A i \in 1..Len(CommandCatalog[file].aliases) :
                   LookupCommand(CommandCatalog[file].aliases[i]) = file

\* C18: getMainCommands returns every loaded command definition exactly once,
\* none missing and none repeated through its aliases, for any set of loaded
\* definitions.
C18_MainCommandsEveryDefinitionOnce ==
    /\ \A file \in loadedDefs :
           Cardinality({i \in 1..Len(getMainCommands) :
                           getMainCommands[i] = file}) = 1
    /\ Len(getMainCommands) = Cardinality(loadedDefs)

-----------------------------------------------------------------------------
(* Properties of the session state machine                                 *)

StatusOrder == <<"login", "colorCheck", "asciiCheck", "welcome_pause", "active">>

StatusRank(status) == CHOOSE i \in 1..Len(StatusOrder) : StatusOrder[i] = status

\* the step is the "data" event of connection c
IsData(c) == \E line \in Lines \cup DataLines \cup ApiLines : Data(c, line)

\* the deliveries of the last step that carry this notice to connection d
Deliveries(W, d, notice) ==
    {i \in 1..Len(W.sent) : W.sent[i].to = d /\ W.sent[i].msg = notice}

\* C3: a session's status only advances along login, colorCheck, asciiCheck,
\* welcome_pause, active, one state at a time, and no step changes it once
\* it is active.
C3_StatusOnlyAdvances ==
    [][\A c \in Conns :
          LET old == world.sess[c].status
              new == world'.sess[c].status
          IN  \/ new = old
              \/ /\ old # "active"
                 /\ new \in {StatusOrder[i] : i \in 1..Len(StatusOrder)}
                 /\ StatusRank(new) = StatusRank(old) + 1]_vars

\* C4: the line a connection sends in welcome_pause leaves the actor active,
\* located at the configured start zone and room, and every other active
\* actor with exactly one join notice naming the actor.
C4_JoinActivatesMovesAndAnnounces ==
    [][\A c \in Conns :
          (world.sess[c].status = "welcome_pause" /\ IsData(c)) =>
              /\ world'.sess[c].status = "active"
              /\ world'.sess[c].zoneId = StartZone
              /\ world'.sess[c].roomId = StartRoom
              /\ \A d \in Conns \ {c} :
                     (world'.conn[d] = "open" /\ world'.sess[d].status = "active")
                         => Cardinality(Deliveries(world', d,
                                [kind |-> "join", c |-> c])) = 1]_vars

\* C5: when a connection closes, its session is offline, is written to the
\* account store if and only if it is not temporary, has no roster entry
\* left, and every remaining active actor gets a departure notice.
C5_CloseCleansUp ==
    [][\A c \in Conns :
          Close(c) =>
              /\ world'.sess[c].online = JFALSE
              /\ (world.sess[c].temporary = JTRUE) => (world'.wrote = <<>>)
              /\ (world.sess[c].temporary # JTRUE) =>
                     (world'.wrote = <<simplifiedUser(world.sess[c])>>)
              /\ \A i \in 1..Len(world'.users) : world'.users[i] # c
              /\ \A d \in Conns \ {c} :
                     (world'.conn[d] = "open" /\ world'.sess[d].status = "active")
                         => Deliveries(world', d,
                                [kind |-> "depart", c |-> c]) # {}]_vars

\* C6: when a command handler throws or its promise rejects, handleCommands
\* reports false, the process keeps running and the connection stays open.
C6_HandlerFailureReportedFalse ==
    [][\A c \in Conns :
          (IsData(c) /\ ret'.handler \in {"threw", "rejected"}) =>
              /\ ret'.dispatch = "false"
              /\ world'.alive
              /\ world'.conn[c] = "open"]_vars

\* C8: no two account records with distinct ids carry the same first and
\* last name.
C8_AccountNamesUnique ==
    \A i, j \in 1..Len(world.accounts) :
        (world.accounts[i].k # world.accounts[j].k) =>
            ~(/\ world.accounts[i].v.firstName = world.accounts[j].v.firstName
              /\ world.accounts[i].v.lastName = world.accounts[j].v.lastName)

\* C9: no step writes an account record whose temporary flag is true, and
\* the close of a temporary session leaves the account store as it was.
C9_TemporaryNeverWritten ==
    [][/\ \A i \in 1..Len(world'.wrote) : world'.wrote[i].temporary # JTRUE
       /\ \A c \in Conns :
              (Close(c) /\ world.sess[c].temporary = JTRUE) =>
                  (world'.accounts = world.accounts /\ world'.wrote = <<>>)]_vars

\* a temporary session has been closed and its save did nothing
C9_Witness ==
    \E c \in Conns :
        /\ world.conn[c] = "closed"
        /\ world.sess[c].temporary = JTRUE
        /\ ret.save = "skip"

\* C10: moveUser to a zone and room the Room Store does not have returns
\* false without raising, changes no session's zone or room and signals no
\* notification channel.
C10_MoveToMissingRoomReturnsFalse ==
    [][\A c \in Conns :
          (/\ world.sess[c].status = "welcome_pause"
           /\ IsData(c)
           /\ ~exists(world, StartZone, StartRoom)) =>
              /\ ret'.moveUser = "false"
              /\ \A d \in Conns :
                     /\ world'.sess[d].zoneId = world.sess[d].zoneId
                     /\ world'.sess[d].roomId = world.sess[d].roomId
              /\ world'.rooms = world.rooms]_vars

\* the texts of the last step that the handler of connection c sent, by
\* position
SentBy(W, c, kind) ==
    {i \in 1..Len(W.sent) : W.sent[i].msg = [kind |-> kind, c |-> c]}

\* the line's first token, lower-cased, is not a key of the command table
UnknownVerb(line) == line # <<>> /\ ~MapHas(commands, LowerToken(Head(line)))

\* C14: in active state a line whose lower-cased first token is not a key of
\* the command table gets the actor exactly one "not found" notice and
\* exactly one prompt, and no handler is invoked.
C14_UnknownVerbNoticeAndPrompt ==
    [][\A c \in Conns, line \in DataLines :
          (world.sess[c].status = "active" /\ UnknownVerb(line) /\ Data(c, line)) =>
              /\ Cardinality(Deliveries(world', c, [kind |-> "notfound", c |-> c])) = 1
              /\ Cardinality(Deliveries(world', c, [kind |-> "prompt", c |-> c])) = 1
              /\ world'.calls = <<>>]_vars

\* C15: a prompt is written for a line only when the actor's status is
\* active, never for a line handled in colorCheck or asciiCheck, and it
\* comes after all the output the invoked handler produces for the line.
C15_PromptOnlyActiveAndLast ==
    [][\A c \in Conns :
          IsData(c) =>
              LET prompts == SentBy(world', c, "prompt")
              IN  /\ prompts # {} => world'.sess[c].status = "active"
                  /\ world.sess[c].status \in {"colorCheck", "asciiCheck"}
                         => prompts = {}
                  /\ prompts # {} =>
                         /\ \A p \in prompts, i \in SentBy(world', c, "output") :
                                i < p
                         /\ Len(world'.pending) = Len(world.pending)]_vars

\* C16: for a line in active state a command failure is logged exactly when
\* the value the invoked handler returned, or its promise settled to, is
\* falsy.
C16_FailureLoggedIffFalsy ==
    [][\A c \in Conns :
          (IsData(c) /\ ret'.handler \in {"returned", "resolved", "pending"}) =>
              (ret'.logged <=> ret'.value \in {"undefined", "false"})]_vars

\* C17: every handler invocation receives the acting session, the Session
\* Registry, the Room Store, the Item Store, the remainder of the line and
\* a context tag, "user" for the line's own command and "emit" for a look
\* that a move triggers.
C17_UniformHandlerContext ==
    [][\A i \in 1..Len(world'.calls) :
          LET params == world'.calls[i]
          IN  /\ {"user", "userManager", "roomManager", "itemManager", "data",
                  "context"} \subseteq DOMAIN params
              /\ params.context =
                     IF i = 1 /\ ret'.handler # "none" THEN "user" ELSE "emit"]_vars

\* the online session that send and moveUser resolve the id to in W: the
\* first of the users list that is online and has the id (0 if there is none)
Resolved(W, id) ==
    LET hits == {i \in 1..Len(W.users) :
                    /\ W.sess[W.users[i]].online = JTRUE
                    /\ W.sess[W.users[i]].id = id}
    IN  IF hits = {} THEN 0
        ELSE W.users[CHOOSE i \in hits : \A j \in hits : i <= j]

\* C11: in moveUser with a list of ids and a destination that exists, an id
\* that matches no online session is skipped without an error, and every
\* other listed online session is moved to the destination.
C11_MissingIdSkipped ==
    [][\A userIds \in IdLists :
          (/\ exists(world, StartZone, StartRoom)
           /\ CallMoveUser(userIds, StartZone, StartRoom)) =>
              /\ ret'.moveUser = "true"
              /\ \A i \in 1..Len(userIds) :
                     LET c == Resolved(world, userIds[i])
                     IN  c # 0 => /\ world'.sess[c].zoneId = StartZone
                                  /\ world'.sess[c].roomId = StartRoom]_vars

\* C12: on a successful moveUser each named online session has the zone and
\* room of the destination and is signalled once, which runs one look with
\* context "emit" that sends the description of the new room to the moved
\* actor and no "looks at the room" notice to the other occupants.
C12_MoveSignalsOneEmitLook ==
    [][\A userIds \in IdLists :
          (/\ CallMoveUser(userIds, StartZone, StartRoom)
           /\ ret'.moveUser = "true") =>
              \A i \in 1..Len(userIds) :
                 LET c     == Resolved(world, userIds[i])
                     times == Cardinality({j \in 1..Len(userIds) :
                                             Resolved(world, userIds[j]) = c})
                 IN  /\ world'.sess[c].zoneId = StartZone
                     /\ world'.sess[c].roomId = StartRoom
                     /\ Cardinality({k \in 1..Len(world'.calls) :
                                        /\ world'.calls[k].user = c
                                        /\ world'.calls[k].command = "look"
                                        /\ world'.calls[k].context = "emit"}) = times
                     /\ Cardinality(Deliveries(world', c,
                                        [kind |-> "room", c |-> c])) = times
                     /\ SentBy(world', c, "looks") = {}]_vars

\* C13: send with a mixture of ids writes the text once to the connection of
\* each id that matches an online session, writes nothing for an id with no
\* online match, and raises no error.
C13_SendReachesOnlineOnly ==
    [][ret'.api = "send" =>
          LET userIds == ret'.ids
              matched == {i \in 1..Len(userIds) : Resolved(world, userIds[i]) # 0}
          IN  /\ Len(world'.sent) = Cardinality(matched)
              /\ \A d \in Conns :
                     Cardinality({k \in 1..Len(world'.sent) : world'.sent[k].to = d})
                       = Cardinality({i \in matched : Resolved(world, userIds[i]) = d})
              /\ \A k \in 1..Len(world'.sent) :
                     /\ world'.sent[k].msg = [kind |-> "text", c |-> 0]
                     /\ world'.sent[k].to \in Conns
                     /\ world.conn[world'.sent[k].to] = "open"
              /\ world'.alive
              /\ world'.sess = world.sess /\ world'.users = world.users]_vars

\* a send to one id that is online and one that is not has written once
C13_Witness ==
    /\ ret.api = "send"
    /\ Len(ret.ids) = 2
    /\ Resolved(world, ret.ids[1]) = 0
    /\ Resolved(world, ret.ids[2]) # 0
    /\ Len(world.sent) = 1

\* the number an id stands for
NumberOf(id) == CHOOSE n \in RoomNumbers \cup {0} : id \in Forms(n)

\* the key the ids a and b of zone and room stand for
KeyOf(a, b) == ThreeDigits(a) \o <<":">> \o ThreeDigits(b)

\* C19: getRoomKey returns each id left-padded with zeros to three digits and
\* joined by ":", the same key for equal ids given as numbers, as unpadded
\* strings or as padded strings, and that key is the stem of the filename
\* that both exists and loadRoom use for the backing record.
C19_RoomKeyPaddedAndShared ==
    [][ret'.api \in {"loadRoom", "exists", "unloadRoom"} =>
          LET roomKey == KeyOf(NumberOf(ret'.args[1]), NumberOf(ret'.args[2]))
              stored  == MapHas(world.roomFiles, roomKey \o <<".", "j", "s", "o", "n">>)
              cached  == MapHas(world.rooms, roomKey)
          IN  /\ ret'.key = roomKey
              /\ ret'.api = "loadRoom" =>
                     /\ ret'.value = IF cached \/ stored THEN "room" ELSE "false"
                     /\ MapKeys(world'.rooms) \subseteq MapKeys(world.rooms) \cup {roomKey}
                     /\ MapHas(world'.rooms, roomKey) <=> (cached \/ stored)
              /\ ret'.api = "exists" =>
                     ret'.value = IF cached \/ stored THEN "true" ELSE "false"
              /\ ret'.api = "unloadRoom" =>
                     ret'.value = IF cached THEN "true" ELSE "false"]_vars

\* room 7 was loaded by number for the zone and unpadded string for the room
C19_Witness ==
    /\ ret.api = "loadRoom"
    /\ ret.args = <<Num(0), Str(<<"7">>)>>
    /\ ret.key = <<"0", "0", "0", ":", "0", "0", "7">>
    /\ ret.value = "room"

\* C20: for every room, loadRoom after unloadRoom with the backing record
\* not changed since the room was read returns a Room whose field values
\* equal those of the Room that was cached before the unload.
C20_ReloadEqualsEvicted ==
    [][(/\ ret'.api = "loadRoom"
        /\ ~MapHas(world.rooms, ret'.key)
        /\ MapHas(world.evicted, ret'.key)
        /\ getRoomFilename(ret'.args[1], ret'.args[2]) \notin world.edited) =>
           /\ ret'.value = "room"
           /\ MapHas(world'.rooms, ret'.key)
           /\ MapGet(world'.rooms, ret'.key) = MapGet(world.evicted, ret'.key).room]_vars

\* room 7 was read from the edited record, evicted, and loaded again
C20_Witness ==
    /\ ret.api = "loadRoom"
    /\ ret.value = "room"
    /\ ret.key = <<"0", "0", "0", ":", "0", "0", "7">>
    /\ MapHas(world.evicted, ret.key)
    /\ MapHas(world.rooms, ret.key)
    /\ MapGet(world.rooms, ret.key) = Room(WellDataEdited)
    /\ MapGet(world.evicted, ret.key).room = Room(WellDataEdited)
    /\ world.edited = {}

\* C21: unloadRoom removes the cache entry and returns true only when the key
\* is cached; for a key that is not cached it returns false and changes
\* nothing; in neither case is a backing record deleted or modified, and no
\* other cache entry is touched.
C21_UnloadTouchesOnlyItsEntry ==
    [][ret'.api = "unloadRoom" =>
          LET roomKey == KeyOf(NumberOf(ret'.args[1]), NumberOf(ret'.args[2]))
              cached  == \E i \in 1..Len(world.rooms) : world.rooms[i].k = roomKey
          IN  /\ ret'.value = IF cached THEN "true" ELSE "false"
              /\ world'.roomFiles = world.roomFiles
              /\ \A i \in 1..Len(world.rooms) :
                     world.rooms[i].k # roomKey =>
                        \E j \in 1..Len(world'.rooms) : world'.rooms[j] = world.rooms[i]
              /\ \A j \in 1..Len(world'.rooms) :
                     /\ world'.rooms[j].k # roomKey
                     /\ \E i \in 1..Len(world.rooms) : world.rooms[i] = world'.rooms[j]
              /\ ~cached => world'.rooms = world.rooms]_vars

\* room 7 was unloaded while room 123 stayed cached
C21_Witness ==
    /\ ret.api = "unloadRoom"
    /\ ret.value = "true"
    /\ ret.key = <<"0", "0", "0", ":", "0", "0", "7">>
    /\ ~MapHas(world.rooms, ret.key)
    /\ MapHas(world.rooms, <<"0", "0", "0", ":", "1", "2", "3">>)

\* the defaults of the optional fields of a Room
RoomDefaults == [locked |-> JFALSE, temporary |-> JTRUE]

\* C22: a Room constructed by loadRoom has each field equal to the value of
\* the backing record where the record supplies one, and the default
\* (locked false, temporary true) only where the record omits the field.
C22_RoomFieldsFromRecord ==
    [][(/\ ret'.api = "loadRoom"
        /\ ret'.value = "room"
        /\ ~MapHas(world.rooms, ret'.key)) =>
           LET data == MapGet(world.roomFiles, ret'.key \o <<".", "j", "s", "o", "n">>)
               room == MapGet(world'.rooms, ret'.key)
           IN  /\ \A f \in {"roomId", "zoneId", "name"} : room[f] = data[f]
               /\ \A f \in DOMAIN RoomDefaults :
                      room[f] = IF data[f] = UNDEF THEN RoomDefaults[f]
                                ELSE data[f]]_vars

\* C23: deleteItem for an item that exists, cached or present only in the
\* backing store, removes both its cache entry and its backing record; for
\* an id present in neither it returns false and changes nothing.
C23_DeleteRemovesCacheAndRecord ==
    [][\A id \in IssuedIds :
          deleteItem(id) =>
             IF MapHas(items, id) \/ MapHas(itemFiles, id)
             THEN /\ itemOp' = "ok"
                  /\ ~MapHas(items', id)
                  /\ ~MapHas(itemFiles', id)
             ELSE /\ itemOp' = "false"
                  /\ items' = items
                  /\ itemFiles' = itemFiles]_vars

-----------------------------------------------------------------------------
(* Item Store: search                                                      *)

\* the ids a search ranges over: the cached ones and every loadable record
SearchIds ==
    MapKeys(items) \cup {id \in MapKeys(itemFiles) : MapGet(itemFiles, id) # Unparsable}

\* the item a search sees under an id: the cached object when there is one
Stored(id) ==
    IF MapHas(items, id) THEN MapGet(items, id)
    ELSE Assign(DefaultItem, MapGet(itemFiles, id))

\* a usable name is a string
WellFormed(item) == item.name # NullName

\* one criterion holds of an item: the name by case-insensitive substring,
\* any other key by equality
KeyHolds(item, c) ==
    IF c.key = "name"
    THEN WellFormed(item) /\ includes(toLowerCase(item.name), toLowerCase(c.value))
    ELSE c.key \in DOMAIN item /\ item[c.key] = c.value

AllHold(item, criteria) == \A i \in DOMAIN criteria : KeyHolds(item, criteria[i])

IdsOf(ids) == {ids[i] : i \in DOMAIN ids}

\* C24: findItems(criteria) returns exactly the items of the cache and of the
\* loadable records not yet cached (the cached object when an id is in both)
\* for which every criteria key matches, the name by case-insensitive
\* substring and any other key by equality.
C24_FindReturnsExactlyMatching ==
    [][\A criteria \in Criteria :
         FindItems(criteria) =>
            /\ ret'.value = "returned"
            /\ IdsOf(ret'.ids) = {id \in SearchIds : AllHold(Stored(id), criteria)}]_vars

\* C25: a name criterion matches by case-insensitive containment in either
\* direction: an item whose name holds the criterion, and an item whose name
\* is held by the criterion.
C25_NameMatchesEitherDirection ==
    [][\A n \in QueryNames :
         (FindItems(<<[key |-> "name", value |-> n]>>) /\ ret'.value = "returned") =>
            IdsOf(ret'.ids) =
                {id \in SearchIds :
                    \/ includes(toLowerCase(Stored(id).name), toLowerCase(n))
                    \/ includes(toLowerCase(n), toLowerCase(Stored(id).name))}]_vars

\* C26: a malformed backing record (unparsable, or without a usable name) is
\* not found, for its id only: findItems over a store that holds it raises
\* no error and returns every matching well-formed item.
C26_MalformedRecordSkipped ==
    [][\A criteria \in Criteria :
         FindItems(criteria) =>
            /\ ret'.value = "returned"
            /\ \A id \in SearchIds :
                  IF WellFormed(Stored(id))
                  THEN AllHold(Stored(id), criteria) => id \in IdsOf(ret'.ids)
                  ELSE id \notin IdsOf(ret'.ids)]_vars

\* C27: an item made by createItem, which caches and persists it in one
\* step, then dropped from the cache and loaded by id with loadItem, comes
\* back with every field equal to the created item's.
C27_CreateEvictLoadRoundTrip ==
    [][\A d \in ItemData :
         createItem(d) =>
            LET id == ItemIdPool[nextItem']
            IN  /\ MapGet(items', id) = NewItem(id, d)
                /\ MapHas(loadItem(<<>>, itemFiles', id), id)
                /\ MapGet(loadItem(<<>>, itemFiles', id), id) = MapGet(items', id)]_vars

\* the first item created sits behind the second in the cache: it was loaded
\* again after a restart, as it was created
C27_Witness ==
    /\ Len(items) = 2
    /\ items[1].k = ItemIdPool[2]
    /\ items[2].k = ItemIdPool[1]
    /\ items[2].v \in {NewItem(ItemIdPool[1], d) : d \in ItemData}
    /\ Truthy(items[2].v.owner)

-----------------------------------------------------------------------------
(* Session Manager: save                                                   *)

\* the fields save leaves out of the record it writes
TransientFields == {"client", "eventEmitter", "status", "online"}

\* the stored record of a session differs from it in first or last name
NameMismatch(W, user) ==
    /\ MapHas(W.accounts, user.id)
    /\ \/ MapGet(W.accounts, user.id).firstName # user.firstName
       \/ MapGet(W.accounts, user.id).lastName # user.lastName

\* C28: the save of a non-temporary session whose record exists under another
\* first or last name is refused with an error and leaves the record as it
\* was; otherwise save writes the session without its connection handle,
\* notification channel, status and online flag.
C28_SaveRefusesNameMismatch ==
    [][/\ \A i \in 1..Len(world'.wrote) :
             DOMAIN world'.wrote[i] \cap TransientFields = {}
       /\ \A c \in Conns :
             (Close(c) /\ world.sess[c].temporary # JTRUE) =>
                LET user == world.sess[c]
                IN  IF NameMismatch(world, user)
                    THEN /\ ret'.save = "throw"
                         /\ world'.accounts = world.accounts
                         /\ world'.wrote = <<>>
                    ELSE /\ ret'.save = "ok"
                         /\ Len(world'.wrote) = 1
                         /\ MapGet(world'.accounts, user.id) = world'.wrote[1]
                         /\ DOMAIN world'.wrote[1] = DOMAIN user \ TransientFields
                         /\ \A f \in DOMAIN world'.wrote[1] :
                                world'.wrote[1][f] = user[f]]_vars

\* a session that is not temporary, renamed since its record was written,
\* has been closed: the save was refused and nothing written
C28_Witness ==
    \E c \in Conns :
        /\ world.conn[c] = "closed"
        /\ world.sess[c].temporary # JTRUE
        /\ NameMismatch(world, world.sess[c])
        /\ ret.save = "throw"
        /\ world.wrote = <<>>

-----------------------------------------------------------------------------
(* Commands: selection among several candidates                            *)

\* the command names no ordinal, no quantity and no "all"
Unselected(sel) == ~sel.indexed /\ ~sel.all /\ sel.quantity = 1

\* the command names the ordinal k of one of the candidates
Ordinal(found, sel) ==
    sel.indexed /\ ~sel.all /\ sel.quantity = 1 /\ sel.index + 1 <= Len(found)

\* the candidates of a search, in findItems order
Candidates(criteria) == matchingItems(LoadEvery(items, itemFiles, 1), criteria).ids

\* the item a search sees under an id after the step
StoredAfter(id) ==
    IF MapHas(items', id) THEN MapGet(items', id)
    ELSE Assign(DefaultItem, MapGet(itemFiles', id))

\* the step left every item but those in ids as it was, in cache and record
OnlyMutated(ids) ==
    /\ \A id \in SearchIds \ ids : StoredAfter(id) = Stored(id)
    /\ \A id \in MapKeys(itemFiles) \ ids : MapGet(itemFiles', id) = MapGet(itemFiles, id)
    /\ MapKeys(itemFiles') = MapKeys(itemFiles)

\* with several candidates: without a selector the actor is sent the indexed
\* list and nothing is mutated; with an ordinal only that candidate is
AsksOrMutatesOne(found, sel) ==
    Len(found) > 1 =>
        /\ Unselected(sel) =>
              /\ ret'.value = "specify"
              /\ ret'.ids = [i \in 1..Len(found) |->
                                [name |-> Stored(found[i]).name, index |-> i]]
              /\ OnlyMutated({})
        /\ Ordinal(found, sel) =>
              /\ ret'.value \in {"done", "threw"}
              /\ OnlyMutated({found[sel.index + 1]})

-----------------------------------------------------------------------------
(* Commands: walk                                                          *)

\* the key of the room a session stands in
RoomOf(W, d) == getRoomKey(W.sess[d].zoneId, W.sess[d].roomId)

\* the sessions other than c that stand in the room with the key
Occupants(W, c, roomKey) ==
    {d \in Conns \ {c} : /\ \E i \in 1..Len(W.users) : W.users[i] = d
                         /\ RoomOf(W, d) = roomKey}

\* the texts of one kind that the step wrote to the connection of d
Notices(W, d, kind) ==
    Cardinality({i \in 1..Len(W.sent) : W.sent[i].to = d /\ W.sent[i].msg.kind = kind})

\* the rooms of the movement scenario
RoomA == getRoomKey(StartZone, StartRoom)
RoomB == <<"0", "0", "0", ":", "0", "0", "7">>

\* C30: when an actor in room A, which has an exit north to the existing
\* room B, issues the movement verb, the actor's zone and room become B's,
\* each remaining occupant of A receives exactly one leaving notice, each
\* occupant of B exactly one arrival notice, and the actor exactly one
\* confirmation.
C30_WalkMovesAndNotifies ==
    [][\A c \in Conns :
          (/\ world.conn[c] = "open"
           /\ world.sess[c].status = "active"
           /\ RoomOf(world, c) = RoomA
           /\ exists(world, Str(<<"0", "0", "0">>), Str(<<"0", "0", "7">>))
           /\ Data(c, <<"north">>)) =>
              /\ RoomOf(world', c) = RoomB
              /\ \A d \in Occupants(world, c, RoomA) :
                     RoomOf(world', d) = RoomA => Notices(world', d, "leaving") = 1
              /\ \A d \in Occupants(world, c, RoomB) :
                     Notices(world', d, "entering") = 1
              /\ Notices(world', c, "moved") = 1]_vars

\* the active sessions other than c that stand where c stands
ActiveRoommates(W, c) ==
    {d \in Occupants(W, c, RoomOf(W, c)) : W.sess[d].status = "active"}

\* C31: a room-scoped message is delivered exactly once to each active
\* actor in the sender's room other than the sender, to no session that is
\* not active and to no actor in another room, and the sender receives only
\* the first-person echo.
C31_RoomScopeReachesActiveRoommatesOnce ==
    [][\A c \in Conns :
          (ret'.api = "say" /\ ret'.args = <<c>> /\ world.sess[c].status = "active")
          => /\ \A d \in Conns \ {c} :
                    Notices(world', d, "heard")
                        = (IF d \in ActiveRoommates(world, c) THEN 1 ELSE 0)
             /\ Notices(world', c, "echo") = 1
             /\ Notices(world', c, "heard") = 0
             /\ \A d \in Conns : Notices(world', d, "nearby") = 0]_vars

\* the keys of the rooms the exits of the room of c lead to
ExitRooms(W, c) ==
    IF ~MapHas(W.roomFiles, getRoomFilename(W.sess[c].zoneId, W.sess[c].roomId))
    THEN {}
    ELSE LET exits == MapGet(W.roomFiles,
                             getRoomFilename(W.sess[c].zoneId, W.sess[c].roomId)).exits
         IN  {exits[d] : d \in DOMAIN exits}

\* the active sessions other than c one exit away from c
ActiveNeighbours(W, c) ==
    {d \in Conns \ {c} : /\ \E i \in 1..Len(W.users) : W.users[i] = d
                         /\ W.sess[d].status = "active"
                         /\ RoomOf(W, d) \in ExitRooms(W, c)}

\* C32: a local-scoped message reaches the active actors in the sender's
\* room and the active actors in each room an exit of the sender's room
\* leads to, and nobody else.
C32_LocalScopeReachesRoomAndOneHop ==
    [][\A c \in Conns :
          (/\ ret'.api = "yell" /\ ret'.args = <<c>>
           /\ world.sess[c].status = "active"
           /\ world.sess[c].role # "visitor")
          => \A d \in Conns \ {c} :
                (Notices(world', d, "heard") + Notices(world', d, "nearby") > 0)
                    <=> d \in ActiveRoommates(world, c) \cup ActiveNeighbours(world, c)]_vars

\* the keys of the rooms the Room Store holds in memory
Cached(W) == {W.rooms[i].k : i \in 1..Len(W.rooms)}

\* the cached rooms in which a session of the registry stands
Inhabited(W) ==
    {k \in Cached(W) : \E i \in 1..Len(W.users) : RoomOf(W, W.users[i]) = k}

\* C33: each run of the periodic sweep unloads exactly the cached rooms in
\* which no session of the registry is located and never a room in which
\* one is, whether the session's zone and room are numbers, unpadded
\* strings or padded strings.
C33_SweepUnloadsExactlyEmptyRooms ==
    [][(ret'.api = "sweep" /\ Sweep) => Cached(world') = Inhabited(world)]_vars

\* the step handled the line "take coin" of connection c
TookLine(W, c) ==
    \E i \in 1..Len(W.calls) : /\ W.calls[i].user = c
                               /\ W.calls[i].command = "take"
                               /\ W.calls[i].context = "user"

\* c is a player who stands in the start room
PlayerInStartRoom(W, c) ==
    /\ W.conn[c] = "open"
    /\ W.sess[c].status = "active"
    /\ W.sess[c].role # "visitor"
    /\ RoomOf(W, c) = RoomA

\* C34: the lines of different connections are handled one after the
\* other, and when two players in the same room each send take for the one
\* coin that lies there, one directly after the other, the coin ends with
\* one of the two as its owner and with a null location.
C34_TwoTakesOneOwner ==
    [][\A c, d \in Conns :
          (/\ c # d
           /\ TookLine(world, c) /\ TookLine(world', d)
           /\ PlayerInStartRoom(world, c) /\ PlayerInStartRoom(world, d)
           /\ SearchIds = {ItemIdPool[1]}
           /\ \/ Stored(ItemIdPool[1]).location = "000:000"
              \/ Stored(ItemIdPool[1]).owner = world.sess[c].id)
          => /\ StoredAfter(ItemIdPool[1]).owner
                    \in {world.sess[c].id, world.sess[d].id}
             /\ StoredAfter(ItemIdPool[1]).location = NULL]_vars

\* the step handled the line "user login first last password" of c
LoginCalls(W, c) ==
    {i \in 1..Len(W.calls) : /\ W.calls[i].user = c
                             /\ W.calls[i].command = "user"
                             /\ W.calls[i].context = "user"
                             /\ Len(W.calls[i].data) = 4
                             /\ W.calls[i].data[1] = "login"}

\* the accounts with the names whose password the given one verifies
Verified(W, data) ==
    {i \in 1..Len(W.accounts) :
        /\ W.accounts[i].v.firstName = data[2]
        /\ W.accounts[i].v.lastName = data[3]
        /\ checkPassword(data[4], W.accounts[i].v.salt, W.accounts[i].v.password)}

\* the session of c carries the identity, role and location of the account
BoundTo(user, account) ==
    /\ \A f \in {"id", "firstName", "lastName", "role", "zoneId", "roomId"} :
           user[f] = account[f]
    /\ user.temporary = JFALSE

\* the handler of c sent a text
Answered(W, c) ==
    \E i \in 1..Len(W.sent) : W.sent[i].msg.kind = "output" /\ W.sent[i].msg.c = c

\* C35: user login rebinds the session to a persisted account (id, names,
\* role, location, temporary false) exactly when the session is temporary,
\* an account with the names exists and the password verifies; otherwise a
\* message is sent and no field of the session changes.
C35_LoginRebindsExactlyWhenVerified ==
    [][\A c \in Conns : \A i \in LoginCalls(world', c) :
          IF Truthy(world.sess[c].temporary)
             /\ Verified(world, world'.calls[i].data) # {}
          THEN \E a \in Verified(world, world'.calls[i].data) :
                   BoundTo(world'.sess[c], world.accounts[a].v)
          ELSE /\ world'.sess[c] = world.sess[c]
               /\ Answered(world', c)]_vars

\* C36: in every reachable state no two entries of the roster have the
\* same id, also after user create and user login from several connections.
C36_RosterIdsDistinct ==
    \A i, j \in 1..Len(world.users) :
        i # j => world.sess[world.users[i]].id # world.sess[world.users[j]].id

\* the states of the terminal checks, which a session leaves when its join
\* notice is broadcast
Negotiating == {"colorCheck", "asciiCheck", "welcome_pause"}

\* C37: a departure notice is broadcast only for an actor whose join notice
\* was broadcast before: the close of a connection that never left the
\* terminal checks produces no departure notice.
C37_NoDepartureWithoutJoin ==
    [][\A c \in Conns :
          (/\ Close(c)
           /\ world.sess[c].status \in Negotiating
           /\ Truthy(world.sess[c].temporary))
          => ~\E i \in 1..Len(world'.sent) : /\ world'.sent[i].msg.kind = "depart"
                                            /\ world'.sent[i].msg.c = c]_vars

\* C38: every active session is located at a zone and room the Room Store
\* has; a session is never active at the placeholder location it was
\* constructed with, also when the start room is missing.
C38_ActiveSessionsStandInRooms ==
    \A i \in 1..Len(world.users) :
        world.sess[world.users[i]].status = "active"
            => exists(world, world.sess[world.users[i]].zoneId,
                      world.sess[world.users[i]].roomId)

\* C39: one local-scoped command delivers at most one copy of the message
\* to each recipient and never the "from nearby" copy to the sender,
\* whatever the exits of the sender's room are: two exits to one room, or
\* an exit that leads back into the room itself.
C39_LocalScopeOneCopyEach ==
    [][\A c \in Conns :
          (/\ ret'.api = "yell" /\ ret'.args = <<c>>
           /\ world.sess[c].status = "active"
           /\ world.sess[c].role # "visitor"
           /\ C36_RosterIdsDistinct)
          => /\ \A d \in Conns :
                    Notices(world', d, "heard") + Notices(world', d, "nearby") <= 1
             /\ Notices(world', c, "nearby") = 0]_vars

\* the step handled a line "user set key value" of c
SetCalls(W, c) ==
    {i \in 1..Len(W.calls) : /\ W.calls[i].user = c
                             /\ W.calls[i].command = "user"
                             /\ W.calls[i].context = "user"
                             /\ Len(W.calls[i].data) >= 3
                             /\ W.calls[i].data[1] = "set"}

\* the fields of a session that are not profile keys
IdentityFields == {"id", "role", "temporary", "status", "firstName", "lastName"}

\* C40: user set changes only the advertised profile keys (description,
\* title, clothing, holding, wielding): the id, role, temporary flag,
\* status and names of the session are what they were.
C40_SetLeavesIdentityAlone ==
    [][\A c \in Conns :
          SetCalls(world', c) # {}
          => \A f \in IdentityFields : world'.sess[c][f] = world.sess[c][f]]_vars

=============================================================================
